---- MODULE Spec2Model ----
(***************************************************************************)
(* Interception core of the observability SDK: the wrapped method that     *)
(* wrapLLMClient installs on a client (patching.ts), the stream wrapper    *)
(* and the background stream processor (stream-handler.ts).                *)
(*                                                                         *)
(* One observed call is followed from its invocation to the last record    *)
(* handed to the emitter.  The inputs of the call (provider tag, request,  *)
(* what the original method does, what the emitter's promise does) are     *)
(* drawn from small sets.                                                  *)
(*                                                                         *)
(* Further specifications over the same module: SpecWrap (the get trap of  *)
(* the client proxies), SpecPatch (patchIfExists, the patch functions and  *)
(* observeAIClient), SpecClassify (the two detectProvider functions),     *)
(* SpecAcc (the StreamHandler fed a sequence of chunks), SpecTokens (the   *)
(* three extractTokens functions), SpecGraph (the identity of the proxies  *)
(* a wrapped client hands out), SpecIds (lastInteractionId under           *)
(* concurrent calls), SpecSdk (configuration, workflow and log queue),     *)
(* SpecQueue and SpecQueueFair (the log queue, its flush timer and the     *)
(* sends in flight), SpecWorkflow (startWorkflow, endWorkflow,             *)
(* getWorkflow), SpecMeta (the global metadata, decorated methods and      *)
(* the calls observed inside them) and SpecStreams (two streams in flight  *)
(* together).  Each leaves the variables of the others at rest.            *)
(***************************************************************************)
EXTENDS Integers, Sequences, FiniteSets, TLC

VARIABLES
    pc,         \* position of the call: "idle", "pending" (promise in flight), "settled"
    call,       \* the inputs of the call: provider, reqData, result kind, value, error
    callerSaw,  \* what the caller of the wrapped method observed
    emitted,    \* the records handed to logInteraction, in order
    unhandled,  \* emitter promises that rejected with no rejection handler attached
    swallowed,  \* emitter promises whose rejection a handler caught and logged
    path,       \* how a stream result is handled: "none", "wrapper", "tee"
    srcPos,     \* items pulled from the underlying stream (chunks, then its end)
    iterState,  \* wrapper generator: "none", "active", "done", "failed", "returned"
    iters,      \* how many times the caller started iterating the wrapper
    handler,    \* StreamHandler of the wrapper's current iteration
    callerGot,  \* the chunks the caller has read from its stream
    userPos,    \* tee: items the caller's copy has read
    userState,  \* tee: caller's copy: "none", "active", "done", "failed"
    logPos,     \* tee: items the logging copy has read
    bgState,    \* processStreamInBackground: "none", "running", "done"
    bgHandler   \* StreamHandler of processStreamInBackground

(***************************************************************************)
(* Wrapping and library patching (patching.ts): the provider packages as   *)
(* the module registry sees them, one client, and a chain of property      *)
(* reads through the client's proxies.                                     *)
(***************************************************************************)
VARIABLES
    libs,       \* the packages' modules, patchedLibraries and the global patch flag
    client,     \* the client: its package and the proxy layers around it
    cursor      \* the property chain read from the client, and what it returned

callVars == <<pc, call, callerSaw, emitted, unhandled, swallowed, path, srcPos,
              iterState, iters, handler, callerGot, userPos, userState, logPos,
              bgState, bgHandler>>

clientVars == <<libs, client, cursor>>

(***************************************************************************)
(* The pure functions checked on their own: each variable holds the input  *)
(* drawn for the function and what the function made of it.                *)
(***************************************************************************)
VARIABLES
    cls,        \* provider classification: payload and context, and the result
    acc         \* a StreamHandler fed a sequence of chunks, and its token counts

(***************************************************************************)
(* Further units checked on their own, each with one variable.             *)
(***************************************************************************)
VARIABLES
    tok,        \* a usage object, the extractTokens function applied and its result
    heap,       \* an object graph read through a wrapped client: the proxies made
    ids,        \* observed calls in flight and the module's lastInteractionId
    sdk,        \* the configuration, the workflow and the API client's queue
    ctx         \* the global metadata, the workflows and the decorated methods in flight

unitVars == <<tok, heap, ids, sdk, ctx>>

\* the variables the specification of one observed call leaves alone
outsideCall == <<clientVars, cls, acc, unitVars>>

\* the variables the wrapping and patching specifications leave alone
outsideClient == <<callVars, cls, acc, unitVars>>

vars == <<callVars, clientVars, cls, acc, unitVars>>

streamVars == <<path, srcPos, iterState, iters, handler, callerGot, userPos,
                userState, logPos, bgState, bgHandler>>

(***************************************************************************)
(* Bounds of the model.                                                    *)
(***************************************************************************)
MaxChunks == 2      \* longest underlying stream
MaxIters == 2       \* how many times the caller may iterate one wrapper

NoVal == "<undefined>"

(***************************************************************************)
(* The provider tags of the LLMProvider enum.                              *)
(***************************************************************************)
OPENAI == "openai"
ANTHROPIC == "anthropic"
GOOGLE == "google"
CUSTOM == "custom"
Providers == {OPENAI, ANTHROPIC, GOOGLE, CUSTOM}

(***************************************************************************)
(* Thrown values.  An exception is an Error instance with a message; any   *)
(* other thrown value only has a string conversion.  TypeErr is the error  *)
(* the runtime raises when instrumentation code reads a property of null.  *)
(***************************************************************************)
NoErr == [name |-> "none", isError |-> FALSE, message |-> NoVal, str |-> NoVal]
Boom == [name |-> "boom", isError |-> TRUE, message |-> "boom", str |-> "Error: boom"]
Oops == [name |-> "oops", isError |-> FALSE, message |-> NoVal, str |-> "oops"]
TypeErr == [name |-> "TypeError", isError |-> TRUE,
            message |-> "Cannot read properties of null",
            str |-> "TypeError: Cannot read properties of null"]
OriginalErrors == {Boom, Oops}

\* mutant: the message is always the string conversion of the thrown value
getErrorMessage_AlwaysString(error) == error.str

getErrorMessage(error) ==
    IF error.isError THEN error.message ELSE error.str

(***************************************************************************)
(* Requests: reqData = args[0] || {}.                                      *)
(***************************************************************************)
Requests == [model : {NoVal, "gpt-4"}, paramsModel : {NoVal}, stream : BOOLEAN]

(***************************************************************************)
(* Stream chunks.  A chunk is the object the stream yields; nul marks a    *)
(* null/undefined element, on which every property read throws.            *)
(* A usage object is a function from its field names to numbers; NoUsage   *)
(* stands for an absent (or null) one, EmptyObj for {}.                    *)
(***************************************************************************)
NoUsage == [k \in {"<null>"} |-> 0]
EmptyObj == [k \in {} |-> 0]
Undef == -1

\* deltaContent: choices[0].delta.content; deltaType, deltaText: delta.type,
\* delta.text; blockText: content_block.text; parts: the texts of
\* candidates[0].content.parts; choicesEmpty: choices is an empty array;
\* finishReason: choices[0].finish_reason; messageUsage: message.usage;
\* candFinishReason: candidates[0].finishReason; stopReason: delta.stop_reason,
\* where an Anthropic message_delta event carries the reason the message ended
NullChunk == [nul |-> TRUE, type |-> NoVal, deltaContent |-> NoVal,
              deltaType |-> NoVal, deltaText |-> NoVal, blockText |-> NoVal,
              parts |-> <<>>, content |-> NoVal, text |-> NoVal,
              choicesEmpty |-> FALSE, usage |-> NoUsage, finishReason |-> NoVal,
              messageUsage |-> NoUsage, usageMetadata |-> NoUsage,
              candFinishReason |-> NoVal, stopReason |-> NoVal]
OpenAIChunk(t) == [NullChunk EXCEPT !.nul = FALSE, !.deltaContent = t]
AnthropicChunk(t) == [NullChunk EXCEPT !.nul = FALSE, !.type = "content_block_delta",
                                       !.deltaType = "text_delta", !.deltaText = t]
PlainChunk(t) == [NullChunk EXCEPT !.nul = FALSE, !.text = t]

TextChunk(provider, t) ==
    CASE provider = OPENAI -> OpenAIChunk(t)
      [] provider = ANTHROPIC -> AnthropicChunk(t)
      [] OTHER -> PlainChunk(t)

ChunksOf(provider) == {TextChunk(provider, "a"), NullChunk}

SeqsUpTo(S, n) == UNION {[1..k -> S] : k \in 0..n}

(***************************************************************************)
(* Values the original method returns or resolves to.  asyncIter: the      *)
(* value has a Symbol.asyncIterator function; tee: "none" (no tee          *)
(* function), "ok", "throws" (calling tee() throws); members: its other    *)
(* members; model, candidates, modelConfigModel: what extractModel reads   *)
(* (candidates: "absent", "nullFirst" (an array whose first element is     *)
(* null), "cfgModel" (candidates[0].modelConfig.model is set), "noCfg");   *)
(* chunks, fails: the elements the stream yields and whether it then       *)
(* raises instead of ending; shape, content, finishReason, usage: of a      *)
(* response the StreamHandler synthesizes, the shape it has (named by its   *)
(* distinguishing member), the text, the finish reason and the usage        *)
(* object it carries (NoVal, NoUsage where the shape has no such member);   *)
(* thenable: the value has a then function.                                *)
(***************************************************************************)
NullVal == [isNull |-> TRUE, asyncIter |-> FALSE, tee |-> "none", members |-> {},
            model |-> NoVal, candidates |-> "absent", modelConfigModel |-> NoVal,
            chunks |-> <<>>, fails |-> FALSE,
            shape |-> NoVal, content |-> <<>>, finishReason |-> NoVal,
            usage |-> NoUsage, thenable |-> FALSE]

PlainValues ==
    { [NullVal EXCEPT !.isNull = FALSE, !.model = m, !.candidates = c] :
        m \in {NoVal, "resp-model"}, c \in {"absent", "nullFirst", "cfgModel"} }

StreamValues(provider) ==
    { [NullVal EXCEPT !.isNull = FALSE, !.asyncIter = TRUE, !.tee = t,
                      !.members = IF t = "none" THEN ms ELSE ms \cup {"tee"},
                      !.chunks = cs, !.fails = f] :
        t \in {"none", "ok", "throws"}, ms \in {{}, {"controller"}},
        cs \in SeqsUpTo(ChunksOf(provider), MaxChunks), f \in BOOLEAN }

\* a promise-like value that is not an instance of the native Promise: the
\* wrapped method's test `result instanceof Promise` is false for it
ThenableValues == { [NullVal EXCEPT !.isNull = FALSE, !.thenable = TRUE] }

isAsyncIterable(obj) == ~obj.isNull /\ obj.asyncIter
hasTeeMethod(obj) == ~obj.isNull /\ obj.tee /= "none"

(***************************************************************************)
(* extractModel (patching.ts).  It throws a TypeError when the request     *)
(* names no model, the response has no model and its candidates array      *)
(* starts with a null element: candidates[0].modelConfig reads a property  *)
(* of null.                                                                *)
(***************************************************************************)
extractModelThrows(request, response) ==
    /\ request.model = NoVal
    /\ request.paramsModel = NoVal
    /\ ~response.isNull
    /\ response.model = NoVal
    /\ response.candidates = "nullFirst"

extractModel(request, response, provider) ==
    IF request.model /= NoVal THEN request.model
    ELSE IF request.paramsModel /= NoVal THEN request.paramsModel
    ELSE IF ~response.isNull /\ response.model /= NoVal THEN response.model
    ELSE IF ~response.isNull /\ response.candidates = "cfgModel" THEN "cand-model"
    ELSE IF ~response.isNull /\ response.modelConfigModel /= NoVal
         THEN response.modelConfigModel
    ELSE CASE provider = OPENAI -> "openai-model"
           [] provider = ANTHROPIC -> "anthropic-model"
           [] provider = GOOGLE -> "google-model"
           [] OTHER -> "unknown"

(***************************************************************************)
(* Interaction records.  respTag names what the response field holds:      *)
(* "null", "value" (the value the call produced), "synth" (the response    *)
(* createFinalResponse synthesizes from an accumulator), "basic" (the      *)
(* minimal streaming placeholder), "procError" (the placeholder of a       *)
(* failed background processing).  meta holds the flags the record's       *)
(* metadata carries besides the ambient metadata.                          *)
(***************************************************************************)
Record(status, respTag, content, errorMessage, model, meta) ==
    [status |-> status, respTag |-> respTag, content |-> content,
     errorMessage |-> errorMessage, model |-> model, meta |-> meta]

ErrorRecord(request, provider, error) ==
    Record("error", "null", <<>>, getErrorMessage(error),
           extractModel(request, NullVal, provider), {})

SuccessRecord(request, provider, response) ==
    Record("success", "value", <<>>, NoVal,
           extractModel(request, response, provider), {})

BasicStreamRecord(request, provider, flags) ==
    Record("success", "basic", <<>>, NoVal,
           extractModel(request, NullVal, provider), {"streamingRequest"} \cup flags)

(***************************************************************************)
(* What the caller observes.  kind: "none", "return", "throw", "promise"   *)
(* (a pending promise), "resolve", "reject".  obj names the object handed  *)
(* over: "original" (the very value the original method produced),         *)
(* "wrapper" (the object createStreamWrapper builds), "userStream" (the    *)
(* first copy tee() returns).                                              *)
(***************************************************************************)
Saw(kind, obj, members, err) ==
    [kind |-> kind, obj |-> obj, members |-> members, err |-> err]

NoCall == [provider |-> CUSTOM, req |-> [model |-> NoVal, paramsModel |-> NoVal,
           stream |-> FALSE], kind |-> "none", val |-> NullVal, err |-> NoErr]

(***************************************************************************)
(* StreamHandler (stream-handler.ts): the accumulator of one iteration.    *)
(* content is the accumulated text, as the sequence of appended deltas.    *)
(***************************************************************************)
GEMINI == NoVal     \* LLMProvider has no GEMINI member: the case label is undefined

NewHandler(provider) ==
    [provider |-> provider, content |-> <<>>, usageData |-> NoUsage,
     finishReason |-> NoVal, inputTokensFromStart |-> Undef]

AppendIf(content, t) == IF t /= NoVal THEN Append(content, t) ELSE content

RECURSIVE AppendParts(_, _)
AppendParts(content, parts) ==
    IF parts = <<>> THEN content
    ELSE AppendParts(AppendIf(content, Head(parts)), Tail(parts))

extractContent(h, chunk) ==
    CASE h.provider = OPENAI ->
           LET c1 == AppendIf(h.content, chunk.deltaContent)
               c2 == IF chunk.type = "response.output_text.delta"
                     THEN AppendIf(c1, chunk.deltaText) ELSE c1
           IN  [h EXCEPT !.content = c2]
      [] h.provider = ANTHROPIC ->
           IF chunk.type = "content_block_delta" /\ chunk.deltaType = "text_delta"
              /\ chunk.deltaText /= NoVal
           THEN [h EXCEPT !.content = Append(h.content, chunk.deltaText)]
           ELSE IF chunk.type = "content_block_start" /\ chunk.blockText /= NoVal
           THEN [h EXCEPT !.content = Append(h.content, chunk.blockText)]
           ELSE IF chunk.type = "content_block_stop" /\ chunk.blockText /= NoVal
           THEN [h EXCEPT !.content = Append(h.content, chunk.blockText)]
           ELSE h
      [] h.provider = GEMINI ->
           [h EXCEPT !.content = AppendParts(h.content, chunk.parts)]
      [] OTHER ->
           [h EXCEPT !.content = AppendIf(AppendIf(h.content, chunk.content), chunk.text)]

\* reading chunk.choices / chunk.type / chunk.content of a null chunk throws
processChunkThrows(chunk) == chunk.nul

\* Object.assign(target, source)
Assign(target, source) ==
    [k \in DOMAIN target \cup DOMAIN source |->
        IF k \in DOMAIN source THEN source[k] ELSE target[k]]

\* if (!this.usageData) this.usageData = {}; Object.assign(this.usageData, u)
MergeUsage(usageData, u) ==
    Assign(IF usageData = NoUsage THEN EmptyObj ELSE usageData, u)

extractMetadata(h, chunk) ==
    CASE h.provider = OPENAI ->
           LET u1 == IF chunk.choicesEmpty /\ chunk.usage /= NoUsage
                     THEN chunk.usage ELSE h.usageData
               u2 == IF chunk.usage /= NoUsage /\ u1 = NoUsage
                     THEN chunk.usage ELSE u1
           IN  [h EXCEPT !.usageData = u2,
                         !.finishReason = IF chunk.finishReason /= NoVal
                                          THEN chunk.finishReason ELSE @]
      [] h.provider = ANTHROPIC ->
           LET u1 == IF chunk.type = "message_delta" /\ chunk.usage /= NoUsage
                     THEN MergeUsage(h.usageData, chunk.usage) ELSE h.usageData
               u2 == IF chunk.usage /= NoUsage
                     THEN MergeUsage(u1, chunk.usage) ELSE u1
               u3 == IF chunk.messageUsage /= NoUsage
                     THEN MergeUsage(u2, chunk.messageUsage) ELSE u2
           IN  [h EXCEPT !.inputTokensFromStart =
                             IF /\ chunk.type = "message_start"
                                /\ chunk.messageUsage /= NoUsage
                                /\ "input_tokens" \in DOMAIN chunk.messageUsage
                             THEN chunk.messageUsage["input_tokens"] ELSE @,
                         !.finishReason = IF chunk.type = "message_stop"
                                          THEN "stop" ELSE @,
                         !.usageData = u3]
      [] h.provider = GEMINI ->
           [h EXCEPT !.usageData = IF chunk.usageMetadata /= NoUsage
                                   THEN chunk.usageMetadata ELSE @,
                     !.finishReason = IF chunk.candFinishReason /= NoVal
                                      THEN chunk.candFinishReason ELSE @]
      [] OTHER -> h

\* mutant: processChunk without extractContent
processChunk_MetadataOnly(h, chunk) == extractMetadata(h, chunk)

processChunk(h, chunk) == extractMetadata(extractContent(h, chunk), chunk)

\* createFinalResponse.  Every shape carries a model (request.model || a
\* placeholder), the GEMINI shape under modelConfig and beside a candidates
\* array of one object.  The OPENAI shape (a choices array) has
\* choices[0].finish_reason = this.finishReason || 'stop'; the ANTHROPIC
\* shape (type: "message") has no member for the finish reason; the GEMINI
\* shape has candidates[0].finishReason; the default shape is
\* {content, model, usage}.
createFinalResponse(h, request) ==
    LET named(placeholder) == IF request.model /= NoVal THEN request.model
                              ELSE placeholder
        synth == [NullVal EXCEPT !.isNull = FALSE, !.content = h.content]
    IN  CASE h.provider = OPENAI ->
               [synth EXCEPT !.model = named("unknown"),
                             !.shape = "choices",
                             !.finishReason = IF h.finishReason /= NoVal
                                              THEN h.finishReason ELSE "stop",
                             !.usage = h.usageData]
          [] h.provider = ANTHROPIC ->
               [synth EXCEPT !.model = named("anthropic-model"),
                             !.shape = "message",
                             !.usage = h.usageData]
          [] h.provider = GEMINI ->
               [synth EXCEPT !.candidates = "noCfg",
                             !.modelConfigModel = named("gemini-model"),
                             !.shape = "candidates",
                             !.finishReason = h.finishReason,
                             !.usage = h.usageData]
          [] OTHER ->
               [synth EXCEPT !.model = named("unknown"),
                             !.shape = "generic",
                             !.usage = h.usageData]

createInteractionLog(h, request) ==
    Record("success", "synth", h.content, NoVal,
           extractModel(request, createFinalResponse(h, request), h.provider),
           {"streamingRequest", "streamFullyProcessed"})

\* the minimal record of processStreamInBackground's catch branch
ProcessingErrorRecord(request, provider) ==
    Record("success", "procError", <<>>, NoVal,
           extractModel(request, NullVal, provider),
           {"streamingRequest", "streamProcessingError"})

NoHandler == NewHandler(CUSTOM)

(***************************************************************************)
(* The packages patchLLMLibraries knows, and the variables of the wrapping *)
(* and patching specifications at rest: nothing installed, no client, no   *)
(* property read.                                                          *)
(***************************************************************************)
OpenAIPkg == "openai"
AnthropicPkg == "@anthropic-ai/sdk"
GooglePkg == "@google/genai"
Packages == {OpenAIPkg, AnthropicPkg, GooglePkg}

\* a package's module: installed (require finds it), loaded (it is in
\* require.cache), hasCtor (it exports its client constructor), patched (its
\* _patched flag), replaced (how many times its constructor export has been
\* replaced by a wrapping one)
NoModule ==
    [installed |-> FALSE, loaded |-> FALSE, hasCtor |-> FALSE,
     patched |-> FALSE, replaced |-> 0]

NoLibs ==
    [modules |-> [p \in Packages |-> NoModule],
     patchedLibraries |-> {},
     googlePatchAttempted |-> FALSE,
     patchCalls |-> 0]

\* layers: the proxies around the client, observed: how many of them
\* observeAIClient added
NoClient == [exists |-> FALSE, pkg |-> NoVal, layers |-> 0, observed |-> 0]

\* names: the property names read so far, got: "root" (nothing read),
\* "object", "function", "other" (what the last read returned), "called" (the
\* function was called); wrappers: the wrapping functions around the function
\* read; records: the records its call handed to the emitter
RootCursor == [names |-> <<>>, got |-> "root", wrappers |-> 0, records |-> 0]

ClientIdle ==
    /\ libs = NoLibs
    /\ client = NoClient
    /\ cursor = RootCursor

\* no classification asked, no accumulator built
NoCls == [given |-> FALSE]
NoAcc == [given |-> FALSE]

\* a unit that is not exercised
NoUnit == [given |-> FALSE]

UnitsIdle ==
    /\ tok = NoUnit
    /\ heap = NoUnit
    /\ ids = NoUnit
    /\ sdk = NoUnit
    /\ ctx = NoUnit

PureIdle ==
    /\ cls = NoCls
    /\ acc = NoAcc
    /\ UnitsIdle

Init ==
    /\ pc = "idle"
    /\ call = NoCall
    /\ callerSaw = Saw("none", "none", {}, NoErr)
    /\ emitted = <<>>
    /\ unhandled = 0
    /\ swallowed = 0
    /\ path = "none"
    /\ srcPos = 0
    /\ iterState = "none"
    /\ iters = 0
    /\ handler = NoHandler
    /\ callerGot = <<>>
    /\ userPos = 0
    /\ userState = "none"
    /\ logPos = 0
    /\ bgState = "none"
    /\ bgHandler = NoHandler
    /\ ClientIdle
    /\ PureIdle

(***************************************************************************)
(* logInteraction(rec) with no rejection handler attached to the promise   *)
(* it returns (the call sites of patching.ts).                             *)
(***************************************************************************)
LogBare(rec) ==
    /\ emitted' = Append(emitted, rec)
    /\ \E rejects \in BOOLEAN :
          unhandled' = IF rejects THEN unhandled + 1 ELSE unhandled
    /\ UNCHANGED swallowed

(***************************************************************************)
(* logInteractionFn(rec).catch(...) (the call sites of stream-handler.ts   *)
(* other than the awaited one).                                            *)
(***************************************************************************)
LogCaught(rec) ==
    /\ emitted' = Append(emitted, rec)
    /\ \E rejects \in BOOLEAN :
          swallowed' = IF rejects THEN swallowed + 1 ELSE swallowed
    /\ UNCHANGED unhandled

NoLog == UNCHANGED <<emitted, unhandled, swallowed>>

(***************************************************************************)
(* The wrapped method, up to its return: the original method throws,       *)
(* returns a value that is no Promise, or returns a Promise.               *)
(***************************************************************************)
InvokeThrow(provider, req, error) ==
    /\ UNCHANGED outsideCall
    /\ pc = "idle"
    /\ call' = [provider |-> provider, req |-> req, kind |-> "throw",
                val |-> NullVal, err |-> error]
    /\ LogBare(ErrorRecord(req, provider, error))
    /\ callerSaw' = Saw("throw", "none", {}, error)
    /\ pc' = "settled"
    /\ UNCHANGED streamVars

InvokeValue(provider, req, result) ==
    /\ UNCHANGED outsideCall
    /\ pc = "idle"
    /\ call' = [provider |-> provider, req |-> req, kind |-> "value",
                val |-> result, err |-> NoErr]
    /\ IF extractModelThrows(req, result)
       THEN \* the TypeError is raised inside the try block: the catch branch runs
            /\ LogBare(ErrorRecord(req, provider, TypeErr))
            /\ callerSaw' = Saw("throw", "none", {}, TypeErr)
       ELSE /\ LogBare(SuccessRecord(req, provider, result))
            /\ callerSaw' = Saw("return", "original", result.members, NoErr)
    /\ pc' = "settled"
    /\ UNCHANGED streamVars

InvokePromise(provider, req) ==
    /\ UNCHANGED outsideCall
    /\ pc = "idle"
    /\ call' = [provider |-> provider, req |-> req, kind |-> "promise",
                val |-> NullVal, err |-> NoErr]
    /\ callerSaw' = Saw("promise", "none", {}, NoErr)
    /\ pc' = "pending"
    /\ NoLog
    /\ UNCHANGED streamVars

Invoke ==
    \E provider \in Providers, req \in Requests :
        \/ \E error \in OriginalErrors : InvokeThrow(provider, req, error)
        \/ \E result \in PlainValues \cup StreamValues(provider) \cup ThenableValues :
              InvokeValue(provider, req, result)
        \/ InvokePromise(provider, req)

(***************************************************************************)
(* The promise of the original method rejects: the rejection callback.     *)
(***************************************************************************)
\* mutant: the rejection callback logs and does not re-throw, so the promise
\* the caller holds resolves to undefined
Reject_NoRethrow(error) ==
    /\ UNCHANGED outsideCall
    /\ pc = "pending"
    /\ call' = [call EXCEPT !.err = error, !.kind = "reject"]
    /\ LogBare(ErrorRecord(call.req, call.provider, error))
    /\ callerSaw' = Saw("resolve", "none", {}, NoErr)
    /\ pc' = "settled"
    /\ UNCHANGED streamVars

Reject(error) ==
    /\ UNCHANGED outsideCall
    /\ pc = "pending"
    /\ call' = [call EXCEPT !.err = error, !.kind = "reject"]
    /\ LogBare(ErrorRecord(call.req, call.provider, error))
    /\ callerSaw' = Saw("reject", "none", {}, error)
    /\ pc' = "settled"
    /\ UNCHANGED streamVars

(***************************************************************************)
(* ResolveTee without the record of the teeError branch.                   *)
(***************************************************************************)
ResolveTee_SilentFallback(response) ==
    /\ call.provider = OPENAI /\ call.req.stream /\ hasTeeMethod(response)
    /\ IF response.tee = "throws"
       THEN /\ NoLog
            /\ callerSaw' = Saw("resolve", "original", response.members, NoErr)
            /\ UNCHANGED streamVars
       ELSE /\ NoLog
            /\ callerSaw' = Saw("resolve", "userStream", response.members, NoErr)
            /\ path' = "tee"
            /\ bgState' = "running"
            /\ bgHandler' = NewHandler(call.provider)
            /\ userState' = "active"
            /\ UNCHANGED <<srcPos, iterState, iters, handler, callerGot, userPos, logPos>>

(***************************************************************************)
(* The promise resolves, request.stream === true on an OPENAI client and   *)
(* the response has a tee function: tee() throws (the fallback) or splits  *)
(* the stream; processStreamInBackground starts on the logging copy.       *)
(***************************************************************************)
ResolveTee(response) ==
    /\ call.provider = OPENAI /\ call.req.stream /\ hasTeeMethod(response)
    /\ IF response.tee = "throws"
       THEN /\ LogBare(BasicStreamRecord(call.req, call.provider, {"teeMethodFailed"}))
            /\ callerSaw' = Saw("resolve", "original", response.members, NoErr)
            /\ UNCHANGED streamVars
       ELSE /\ NoLog
            /\ callerSaw' = Saw("resolve", "userStream", response.members, NoErr)
            /\ path' = "tee"
            /\ bgState' = "running"
            /\ bgHandler' = NewHandler(call.provider)
            /\ userState' = "active"
            /\ UNCHANGED <<srcPos, iterState, iters, handler, callerGot, userPos, logPos>>

(***************************************************************************)
(* request.stream === true on an OPENAI client, no tee function: a basic   *)
(* record is logged and the response returned.                             *)
(***************************************************************************)
ResolveOpenAINoTee(response) ==
    /\ call.provider = OPENAI /\ call.req.stream /\ ~hasTeeMethod(response)
    /\ LogBare(BasicStreamRecord(call.req, call.provider, {}))
    /\ callerSaw' = Saw("resolve", "original", response.members, NoErr)
    /\ UNCHANGED streamVars

(***************************************************************************)
(* Any other async-iterable response: createStreamWrapper.  The object it  *)
(* returns has Symbol.asyncIterator and nothing else.                      *)
(***************************************************************************)
ResolveWrapper(response) ==
    /\ ~(call.provider = OPENAI /\ call.req.stream)
    /\ isAsyncIterable(response)
    /\ NoLog
    /\ callerSaw' = Saw("resolve", "wrapper", {}, NoErr)
    /\ path' = "wrapper"
    /\ UNCHANGED <<srcPos, iterState, iters, handler, callerGot, userPos,
                   userState, logPos, bgState, bgHandler>>

(***************************************************************************)
(* A regular response.  A TypeError raised by extractModel inside the      *)
(* fulfilment callback rejects the promise the caller holds; the rejection *)
(* callback of the same then() does not run.                               *)
(***************************************************************************)
ResolvePlain(response) ==
    /\ ~(call.provider = OPENAI /\ call.req.stream)
    /\ ~isAsyncIterable(response)
    /\ IF extractModelThrows(call.req, response)
       THEN /\ NoLog
            /\ callerSaw' = Saw("reject", "none", {}, TypeErr)
       ELSE /\ LogBare(SuccessRecord(call.req, call.provider, response))
            /\ callerSaw' = Saw("resolve", "original", response.members, NoErr)
    /\ UNCHANGED streamVars

Resolve ==
    /\ UNCHANGED outsideCall
    /\ pc = "pending"
    /\ \E response \in PlainValues \cup StreamValues(call.provider) :
          /\ call' = [call EXCEPT !.val = response, !.kind = "resolve"]
          /\ \/ ResolveTee(response)
             \/ ResolveOpenAINoTee(response)
             \/ ResolveWrapper(response)
             \/ ResolvePlain(response)
    /\ pc' = "settled"

(***************************************************************************)
(* The underlying stream: item i is chunks[i] up to the last chunk, the    *)
(* item after it is the end of the stream or the error it raises.          *)
(***************************************************************************)
StreamLen == Len(call.val.chunks)
StreamError == Boom

(***************************************************************************)
(* The caller calls next() on the wrapper's generator.  The first next()   *)
(* of an iteration starts the generator body (a new StreamHandler).  The   *)
(* generator pulls one item from the original stream: a chunk is processed *)
(* and yielded, the end or an error runs the finally block, which logs.    *)
(***************************************************************************)
WrapperNext ==
    /\ UNCHANGED outsideCall
    /\ pc = "settled" /\ path = "wrapper"
    /\ iterState = "active" \/ iters < MaxIters
    /\ LET h == IF iterState = "active" THEN handler ELSE NewHandler(call.provider)
       IN
       /\ iters' = IF iterState = "active" THEN iters ELSE iters + 1
       /\ IF srcPos < StreamLen
          THEN LET chunk == call.val.chunks[srcPos + 1] IN
               /\ IF processChunkThrows(chunk)
                  THEN \* the throw leaves the for-await loop, which closes the stream
                       /\ srcPos' = StreamLen + 1
                       /\ LogCaught(createInteractionLog(h, call.req))
                       /\ iterState' = "failed"
                       /\ handler' = h
                       /\ callerSaw' = [callerSaw EXCEPT !.err = TypeErr]
                       /\ UNCHANGED callerGot
                  ELSE /\ srcPos' = srcPos + 1
                       /\ NoLog
                       /\ handler' = processChunk(h, chunk)
                       /\ iterState' = "active"
                       /\ callerGot' = Append(callerGot, chunk)
                       /\ UNCHANGED callerSaw
          ELSE /\ srcPos' = StreamLen + 1
               /\ LogCaught(createInteractionLog(h, call.req))
               /\ handler' = h
               /\ IF srcPos = StreamLen /\ call.val.fails
                  THEN /\ iterState' = "failed"
                       /\ callerSaw' = [callerSaw EXCEPT !.err = StreamError]
                  ELSE /\ iterState' = "done"
                       /\ UNCHANGED callerSaw
               /\ UNCHANGED callerGot
    /\ UNCHANGED <<pc, call, userPos, userState, logPos, bgState, bgHandler, path>>

(***************************************************************************)
(* The caller leaves its loop early: return() on the generator suspended   *)
(* at the yield runs the finally block.  The underlying stream is          *)
(* single-use: once closed or exhausted, iterating it again ends at once.  *)
(***************************************************************************)
WrapperReturn ==
    /\ UNCHANGED outsideCall
    /\ pc = "settled" /\ path = "wrapper"
    /\ iterState = "active"
    /\ LogCaught(createInteractionLog(handler, call.req))
    /\ iterState' = "returned"
    /\ srcPos' = StreamLen + 1     \* leaving the for-await loop closes the stream
    /\ UNCHANGED <<pc, call, callerSaw, iters, handler, callerGot,
                   userPos, userState, logPos, bgState, bgHandler, path>>

(***************************************************************************)
(* tee(): both copies read the same underlying iterator; an item one copy  *)
(* pulls is queued for the other.  srcPos is the number of items pulled.   *)
(***************************************************************************)
Max(a, b) == IF a > b THEN a ELSE b

\* mutant: the caller's copy only hands out what the logging copy already read
TeeUserNext_BehindLogger ==
    /\ UNCHANGED outsideCall
    /\ pc = "settled" /\ path = "tee" /\ userState = "active"
    /\ userPos < logPos
    /\ userPos' = userPos + 1
    /\ IF userPos < StreamLen
       THEN /\ callerGot' = Append(callerGot, call.val.chunks[userPos + 1])
            /\ UNCHANGED <<userState, callerSaw>>
       ELSE /\ UNCHANGED callerGot
            /\ IF call.val.fails
               THEN /\ userState' = "failed"
                    /\ callerSaw' = [callerSaw EXCEPT !.err = StreamError]
               ELSE /\ userState' = "done"
                    /\ UNCHANGED callerSaw
    /\ NoLog
    /\ UNCHANGED <<pc, call, path, srcPos, iterState, iters, handler, logPos,
                   bgState, bgHandler>>

TeeUserNext ==
    /\ UNCHANGED outsideCall
    /\ pc = "settled" /\ path = "tee" /\ userState = "active"
    /\ userPos' = userPos + 1
    /\ srcPos' = Max(srcPos, userPos + 1)
    /\ IF userPos < StreamLen
       THEN /\ callerGot' = Append(callerGot, call.val.chunks[userPos + 1])
            /\ UNCHANGED <<userState, callerSaw>>
       ELSE /\ UNCHANGED callerGot
            /\ IF call.val.fails
               THEN /\ userState' = "failed"
                    /\ callerSaw' = [callerSaw EXCEPT !.err = StreamError]
               ELSE /\ userState' = "done"
                    /\ UNCHANGED callerSaw
    /\ NoLog
    /\ UNCHANGED <<pc, call, path, iterState, iters, handler, logPos, bgState, bgHandler>>

(***************************************************************************)
(* processStreamInBackground: one turn of its for-await loop.              *)
(***************************************************************************)
BackgroundNext ==
    /\ UNCHANGED outsideCall
    /\ pc = "settled" /\ path = "tee" /\ bgState = "running"
    /\ logPos' = logPos + 1
    /\ srcPos' = Max(srcPos, logPos + 1)
    /\ IF logPos < StreamLen
       THEN LET chunk == call.val.chunks[logPos + 1] IN
            IF processChunkThrows(chunk)
            THEN /\ LogCaught(ProcessingErrorRecord(call.req, call.provider))
                 /\ bgState' = "done"
                 /\ UNCHANGED bgHandler
            ELSE /\ NoLog
                 /\ bgHandler' = processChunk(bgHandler, chunk)
                 /\ UNCHANGED bgState
       ELSE /\ bgState' = "done"
            /\ UNCHANGED bgHandler
            /\ IF call.val.fails
               THEN LogCaught(ProcessingErrorRecord(call.req, call.provider))
               ELSE \* await logInteractionFn(interaction) inside the try block: a
                    \* rejection runs the catch branch, which logs a second record
                    \/ /\ emitted' = Append(emitted, createInteractionLog(bgHandler, call.req))
                       /\ UNCHANGED <<unhandled, swallowed>>
                    \/ /\ emitted' = emitted \o
                            << createInteractionLog(bgHandler, call.req),
                               ProcessingErrorRecord(call.req, call.provider) >>
                       /\ \E rejects \in BOOLEAN :
                             swallowed' = swallowed + (IF rejects THEN 2 ELSE 1)
                       /\ UNCHANGED unhandled
    /\ UNCHANGED <<pc, call, callerSaw, path, iterState, iters, handler,
                   callerGot, userPos, userState>>

Next ==
    \/ Invoke
    \/ Reject(Boom) \/ Reject(Oops)
    \/ Resolve
    \/ WrapperNext
    \/ WrapperReturn
    \/ TeeUserNext
    \/ BackgroundNext

Spec == Init /\ [][Next]_vars

(***************************************************************************)
(* Wrapping and patching.                                                  *)
(*                                                                         *)
(* Strings that the code inspects (method paths, constructor names, model  *)
(* names) are sequences of pieces, each piece a run of characters the code *)
(* never looks inside; "_" and "." are pieces of their own.                *)
(***************************************************************************)
MaxDepth == 2       \* longest chain of property reads from the client
MaxLayers == 2      \* most proxies around one client
MaxPatchCalls == 2  \* most invocations of the patch entry points

includes(s, piece) == \E i \in 1..Len(s) : s[i] = piece

ignoredMethods ==
    { <<"toString">>, <<"valueOf">>, <<"inspect">>, <<"constructor">>,
      <<"then">>, <<"catch">>, <<"finally">>,
      <<"hasOwnProperty">>, <<"isPrototypeOf">>, <<"propertyIsEnumerable">>,
      <<"toLocaleString">>, <<"toJSON">> }

shouldIgnoreMethod(methodPath) ==
    IF includes(methodPath, "_") THEN TRUE
    ELSE IF methodPath \in ignoredMethods THEN TRUE
    ELSE FALSE

\* the property names the reads draw from: create, toString, chat,
\* _request, chat_v2
PropNames ==
    { <<"create">>, <<"toString">>, <<"chat">>, <<"_", "request">>,
      <<"chat", "_", "v2">> }

\* what the target holds under a name
ValueKinds == {"function", "object", "array", "primitive"}

\* currentPath of the get trap: basePath ? `${basePath}.${prop}` : prop
currentPath(basePath, prop) ==
    IF basePath = <<>> THEN prop ELSE basePath \o <<".">> \o prop

\* the basePath of the proxy reached by reading the names in order
RECURSIVE BasePathOf(_)
BasePathOf(names) ==
    IF names = <<>> THEN <<>>
    ELSE currentPath(BasePathOf(SubSeq(names, 1, Len(names) - 1)), names[Len(names)])

(***************************************************************************)
(* The get trap of the proxies around the client, for a string property.   *)
(* Every layer runs the same trap with the same basePath: a function is    *)
(* returned as it is when its path is ignored and is wrapped once by each  *)
(* layer otherwise; an object that is no array is wrapped again with the   *)
(* path as basePath; anything else is returned as it is.                   *)
(***************************************************************************)
get(layers, basePath, prop, kind) ==
    IF kind = "function"
    THEN IF shouldIgnoreMethod(currentPath(basePath, prop))
         THEN [got |-> "function", wrappers |-> 0]
         ELSE [got |-> "function", wrappers |-> layers]
    ELSE IF kind = "object"
    THEN [got |-> "object", wrappers |-> 0]
    ELSE [got |-> "other", wrappers |-> 0]

ReadProperty(prop, kind) ==
    /\ client.exists
    /\ cursor.got \in {"root", "object"}
    /\ Len(cursor.names) < MaxDepth
    /\ LET r == get(client.layers, BasePathOf(cursor.names), prop, kind)
       IN  cursor' = [names |-> Append(cursor.names, prop), got |-> r.got,
                      wrappers |-> r.wrappers, records |-> 0]
    /\ UNCHANGED <<libs, client, outsideClient>>

(***************************************************************************)
(* The function read is called and completes as a regular call does (it    *)
(* returns, throws, resolves or rejects): each wrapping function calls the *)
(* function below it and hands one record to the emitter.                  *)
(***************************************************************************)
CallMethod ==
    /\ cursor.got = "function"
    /\ cursor' = [cursor EXCEPT !.got = "called", !.records = cursor.wrappers]
    /\ UNCHANGED <<libs, client, outsideClient>>

\* the expression is over: the next read starts from the client again
Release ==
    /\ cursor.got # "root"
    /\ cursor' = RootCursor
    /\ UNCHANGED <<libs, client, outsideClient>>

(***************************************************************************)
(* The three patch functions.  Each replaces the constructor export of the *)
(* module with a function that builds the client and wraps it.             *)
(***************************************************************************)
\* mutant: patchGoogle without its _patched check
patchGoogle_NoFlagCheck(GoogleModule) ==
    [GoogleModule EXCEPT !.replaced = @ + 1, !.patched = TRUE]

patchOpenAI(OpenAIModule) ==
    IF OpenAIModule.patched THEN OpenAIModule
    ELSE IF ~OpenAIModule.hasCtor THEN OpenAIModule
    ELSE [OpenAIModule EXCEPT !.replaced = @ + 1, !.patched = TRUE]

patchAnthropic(AnthropicModule) ==
    IF AnthropicModule.patched THEN AnthropicModule
    ELSE [AnthropicModule EXCEPT !.replaced = @ + 1, !.patched = TRUE]

patchGoogle(GoogleModule) ==
    IF GoogleModule.patched THEN GoogleModule
    ELSE [GoogleModule EXCEPT !.replaced = @ + 1, !.patched = TRUE]

\* the patchFn that patchLLMLibraries passes for the package
patchFn(packageName, pkg) ==
    CASE packageName = OpenAIPkg -> patchOpenAI(pkg)
      [] packageName = AnthropicPkg -> patchAnthropic(pkg)
      [] packageName = GooglePkg -> patchGoogle(pkg)

\* require(packageName) throws when the package is not installed; the catch
\* block skips it
patchIfExists(l, packageName) ==
    IF packageName \in l.patchedLibraries THEN l
    ELSE IF ~l.modules[packageName].installed THEN l
    ELSE [l EXCEPT
            !.modules[packageName] = patchFn(packageName, [@ EXCEPT !.loaded = TRUE]),
            !.patchedLibraries = @ \cup {packageName}]

patchLLMLibraries(l) ==
    patchIfExists(patchIfExists(patchIfExists(l, OpenAIPkg), AnthropicPkg), GooglePkg)

PatchLLMLibraries ==
    /\ libs.patchCalls < MaxPatchCalls
    /\ libs' = [patchLLMLibraries(libs) EXCEPT !.patchCalls = @ + 1]
    /\ UNCHANGED <<client, cursor, outsideClient>>

PatchIfExists(packageName) ==
    /\ libs.patchCalls < MaxPatchCalls
    /\ libs' = [patchIfExists(libs, packageName) EXCEPT !.patchCalls = @ + 1]
    /\ UNCHANGED <<client, cursor, outsideClient>>

(***************************************************************************)
(* new Module.Ctor(...): every replacement of the constructor export wraps *)
(* what the constructor it replaced returns.                               *)
(***************************************************************************)
ConstructClient(packageName) ==
    /\ ~client.exists
    /\ libs.modules[packageName].installed
    /\ libs.modules[packageName].hasCtor
    /\ client' = [exists |-> TRUE, pkg |-> packageName,
                  layers |-> libs.modules[packageName].replaced, observed |-> 0]
    /\ libs' = [libs EXCEPT !.modules[packageName].loaded = TRUE]
    /\ UNCHANGED <<cursor, outsideClient>>

\* the program drops the client
DiscardClient ==
    /\ client.exists
    /\ cursor.got = "root"
    /\ client' = NoClient
    /\ UNCHANGED <<libs, cursor, outsideClient>>

(***************************************************************************)
(* Values whose type the code does not check before using them as strings: *)
(* kind is "string" (s holds its pieces), "undefined", or "number".        *)
(***************************************************************************)
StrVal(s) == [kind |-> "string", s |-> s]
UndefVal == [kind |-> "undefined", s |-> <<>>]
NumVal == [kind |-> "number", s |-> <<>>]

\* String.prototype.toLowerCase, piece by piece
LowerPiece(piece) ==
    CASE piece = "OpenAI" -> "openai"
      [] piece = "Anthropic" -> "anthropic"
      [] piece = "Google" -> "google"
      [] piece = "GenAI" -> "genai"
      [] piece = "Gemini" -> "gemini"
      [] piece = "Object" -> "object"
      [] piece = "GPT-" -> "gpt-"
      [] piece = "Claude" -> "claude"
      [] OTHER -> piece

toLowerCase(s) == [i \in 1..Len(s) |-> LowerPiece(s[i])]

startsWith(s, piece) == Len(s) >= 1 /\ s[1] = piece

\* x?.toLowerCase() || '' for a value x that may be undefined: calling
\* toLowerCase on a value that is neither undefined nor a string throws
LowerOrEmptyThrows(x) == x.kind = "number"
LowerOrEmpty(x) == IF x.kind = "string" THEN toLowerCase(x.s) ELSE <<>>

(***************************************************************************)
(* A client as detectProvider of patching.ts looks at it.                  *)
(***************************************************************************)
ClientValue(falsy, ctorName, chat, messages, models) ==
    [falsy |-> falsy, ctorName |-> ctorName, chatCompletionsCreate |-> chat,
     messagesCreate |-> messages, modelsGenerateContent |-> models]

\* the clients the three packages construct
ClientOf(packageName) ==
    CASE packageName = OpenAIPkg ->
           ClientValue(FALSE, StrVal(<<"OpenAI">>), TRUE, FALSE, FALSE)
      [] packageName = AnthropicPkg ->
           ClientValue(FALSE, StrVal(<<"Anthropic">>), FALSE, TRUE, FALSE)
      [] packageName = GooglePkg ->
           ClientValue(FALSE, StrVal(<<"Google", "GenAI">>), FALSE, FALSE, TRUE)

Throws == "<throws>"

\* detectProvider(client) of patching.ts
detectProvider_patching(c) ==
    IF c.falsy THEN CUSTOM
    ELSE IF LowerOrEmptyThrows(c.ctorName) THEN Throws
    ELSE LET constructorName == LowerOrEmpty(c.ctorName) IN
         IF includes(constructorName, "openai") THEN OPENAI
         ELSE IF includes(constructorName, "anthropic") THEN ANTHROPIC
         ELSE IF includes(constructorName, "genai") \/ includes(constructorName, "google")
              THEN GOOGLE
         ELSE IF c.chatCompletionsCreate THEN OPENAI
         ELSE IF c.messagesCreate THEN ANTHROPIC
         ELSE IF c.modelsGenerateContent THEN GOOGLE
         ELSE CUSTOM

(***************************************************************************)
(* observeAIClient(client, provider?): the provider is detected when it is *)
(* not given; for GOOGLE the module found in require.cache is patched on   *)
(* the first such call; the client is wrapped, whatever it already is.     *)
(***************************************************************************)
ObserveAIClient(given) ==
    /\ client.exists
    /\ cursor.got = "root"
    /\ client.layers < MaxLayers
    /\ LET provider == IF given = NoVal
                       THEN detectProvider_patching(ClientOf(client.pkg))
                       ELSE given
       IN  libs' =
             IF provider = GOOGLE /\ ~libs.googlePatchAttempted
             THEN [libs EXCEPT
                     !.googlePatchAttempted = TRUE,
                     !.modules[GooglePkg] =
                         IF @.loaded /\ ~@.patched THEN patchGoogle(@) ELSE @]
             ELSE libs
    /\ client' = [client EXCEPT !.layers = @ + 1, !.observed = @ + 1]
    /\ UNCHANGED <<cursor, outsideClient>>

(***************************************************************************)
(* Specification of the property reads: all three packages are installed   *)
(* and unpatched, the program builds a client, wraps it with               *)
(* observeAIClient and reads chains of properties from it.                 *)
(***************************************************************************)
InstalledModule ==
    [installed |-> TRUE, loaded |-> FALSE, hasCtor |-> TRUE,
     patched |-> FALSE, replaced |-> 0]

CallIdle ==
    /\ pc = "idle"
    /\ call = NoCall
    /\ callerSaw = Saw("none", "none", {}, NoErr)
    /\ emitted = <<>>
    /\ unhandled = 0
    /\ swallowed = 0
    /\ path = "none"
    /\ srcPos = 0
    /\ iterState = "none"
    /\ iters = 0
    /\ handler = NoHandler
    /\ callerGot = <<>>
    /\ userPos = 0
    /\ userState = "none"
    /\ logPos = 0
    /\ bgState = "none"
    /\ bgHandler = NoHandler

InitWrap ==
    /\ libs = [NoLibs EXCEPT !.modules = [p \in Packages |-> InstalledModule]]
    /\ client = NoClient
    /\ cursor = RootCursor
    /\ CallIdle
    /\ PureIdle

NextWrap ==
    \/ \E packageName \in Packages : ConstructClient(packageName)
    \/ \E given \in {NoVal, GOOGLE} : ObserveAIClient(given)
    \/ DiscardClient
    \/ \E prop \in PropNames, kind \in ValueKinds : ReadProperty(prop, kind)
    \/ CallMethod
    \/ Release

SpecWrap == InitWrap /\ [][NextWrap]_vars

(***************************************************************************)
(* Specification of the patch registry: any of the packages may be missing *)
(* and the openai module may lack its constructor export; the program      *)
(* invokes the patch entry points, builds clients, wraps them and calls a  *)
(* method through them.                                                    *)
(***************************************************************************)
PlainMethod == <<"create">>

InitPatch ==
    /\ \E inst \in SUBSET Packages, ctor \in BOOLEAN :
          libs = [NoLibs EXCEPT !.modules =
                    [p \in Packages |->
                       [InstalledModule EXCEPT
                          !.installed = p \in inst,
                          !.hasCtor = (p # OpenAIPkg) \/ ctor]]]
    /\ client = NoClient
    /\ cursor = RootCursor
    /\ CallIdle
    /\ PureIdle

NextPatch ==
    \/ PatchLLMLibraries
    \/ \E packageName \in Packages : PatchIfExists(packageName)
    \/ \E packageName \in Packages : ConstructClient(packageName)
    \/ \E given \in {NoVal, GOOGLE} : ObserveAIClient(given)
    \/ DiscardClient
    \/ ReadProperty(PlainMethod, "function")
    \/ CallMethod
    \/ Release

SpecPatch == InitPatch /\ [][NextPatch]_vars

(***************************************************************************)
(* Provider classification of the decorator (detectProvider(params,        *)
(* context)) and of observeAIClient (detectProvider(client)).              *)
(*                                                                         *)
(* params: kind "undefined", "primitive" (typeof is not 'object') or       *)
(* "object", whose model field is undefined, a number or a string.         *)
(* context: the object the decorated method runs on (or undefined), with   *)
(* metadata.provider (NoVal when there is none) and its constructor name.  *)
(***************************************************************************)
Params(kind, model) == [kind |-> kind, model |-> model]

Context(falsy, override, ctorName) ==
    [falsy |-> falsy, override |-> override, ctorName |-> ctorName]

\* mutant: the constructor name is looked at before the model name
detectProvider_ConstructorFirst(params, context) ==
    IF ~context.falsy /\ context.override # NoVal THEN context.override
    ELSE IF ~context.falsy /\ LowerOrEmptyThrows(context.ctorName) THEN Throws
    ELSE LET constructorName ==
                 IF context.falsy THEN <<>> ELSE LowerOrEmpty(context.ctorName)
         IN
         IF includes(constructorName, "openai") THEN OPENAI
         ELSE IF includes(constructorName, "anthropic") THEN ANTHROPIC
         ELSE IF includes(constructorName, "genai") \/ includes(constructorName, "gemini")
              THEN GEMINI
         ELSE IF params.kind = "object" /\ LowerOrEmptyThrows(params.model) THEN Throws
         ELSE LET modelName ==
                      IF params.kind = "object" THEN LowerOrEmpty(params.model) ELSE <<>>
              IN
              IF \/ startsWith(modelName, "gpt-")
                 \/ includes(modelName, "davinci")
                 \/ includes(modelName, "curie")
                 \/ includes(modelName, "babbage")
                 \/ includes(modelName, "ada")
                 \/ startsWith(modelName, "o3-")
                 \/ startsWith(modelName, "text-")
                 \/ includes(modelName, "gpt4")
              THEN OPENAI
              ELSE IF includes(modelName, "claude") THEN ANTHROPIC
              ELSE IF includes(modelName, "gemini") THEN GEMINI
              ELSE CUSTOM

\* detectProvider(params, context) of the decorator
detectProvider(params, context) ==
    IF ~context.falsy /\ context.override # NoVal THEN context.override
    ELSE IF params.kind = "object" /\ LowerOrEmptyThrows(params.model) THEN Throws
    ELSE LET modelName ==
                 IF params.kind = "object" THEN LowerOrEmpty(params.model) ELSE <<>>
         IN
         IF \/ startsWith(modelName, "gpt-")
            \/ includes(modelName, "davinci")
            \/ includes(modelName, "curie")
            \/ includes(modelName, "babbage")
            \/ includes(modelName, "ada")
            \/ startsWith(modelName, "o3-")
            \/ startsWith(modelName, "text-")
            \/ includes(modelName, "gpt4")
         THEN OPENAI
         ELSE IF includes(modelName, "claude") THEN ANTHROPIC
         ELSE IF includes(modelName, "gemini") THEN GEMINI
         ELSE IF context.falsy THEN CUSTOM
         ELSE IF LowerOrEmptyThrows(context.ctorName) THEN Throws
         ELSE LET constructorName == LowerOrEmpty(context.ctorName) IN
              IF includes(constructorName, "openai") THEN OPENAI
              ELSE IF includes(constructorName, "anthropic") THEN ANTHROPIC
              ELSE IF includes(constructorName, "genai") \/ includes(constructorName, "gemini")
                   THEN GEMINI
              ELSE CUSTOM

(***************************************************************************)
(* The inputs drawn for the two functions.  Model names: GPT-4,            *)
(* text-embedding-ada-002, Claude-3, gemini-pro, mistral and the empty     *)
(* string.  Constructor names: OpenAI, Anthropic, GoogleGenAI, Object.     *)
(***************************************************************************)
ModelNames ==
    { <<"GPT-", "4">>, <<"text-", "embedding-", "ada", "-002">>,
      <<"Claude", "-3">>, <<"gemini", "-pro">>, <<"mistral">>, <<>> }

ModelFields == {UndefVal, NumVal} \cup { StrVal(n) : n \in ModelNames }

ParamsValues ==
    {Params("undefined", UndefVal), Params("primitive", UndefVal)}
        \cup { Params("object", m) : m \in ModelFields }

CtorNames ==
    {UndefVal, NumVal}
        \cup { StrVal(n) : n \in { <<"OpenAI">>, <<"Anthropic">>,
                                    <<"Google", "GenAI">>, <<"Object">> } }

\* the capability probes: at most one of the three shapes is present
Probes == { <<FALSE, FALSE, FALSE>>, <<TRUE, FALSE, FALSE>>,
            <<FALSE, TRUE, FALSE>>, <<FALSE, FALSE, TRUE>> }

ClientValues ==
    {ClientValue(TRUE, UndefVal, FALSE, FALSE, FALSE)}
        \cup { ClientValue(FALSE, n, pr[1], pr[2], pr[3]) :
                 n \in CtorNames, pr \in Probes }

Overrides == {NoVal, ANTHROPIC}

ClassifyInputs ==
    { [params |-> p, override |-> o, client |-> c] :
        p \in ParamsValues, o \in Overrides, c \in ClientValues }

\* a context that is undefined carries no override
InitClassify ==
    /\ \E in \in ClassifyInputs :
          /\ in.client.falsy => in.override = NoVal
          /\ cls = [given |-> TRUE, in |-> in, fn |-> NoVal, out |-> NoVal]
    /\ acc = NoAcc
    /\ UnitsIdle
    /\ ClientIdle
    /\ CallIdle

\* the decorator classifies: detectProvider(params, this)
DecoratorClassify ==
    /\ cls.given /\ cls.fn = NoVal
    /\ cls' = [cls EXCEPT
                 !.fn = "decorator",
                 !.out = detectProvider(cls.in.params,
                            Context(cls.in.client.falsy, cls.in.override,
                                    cls.in.client.ctorName))]
    /\ UNCHANGED <<callVars, clientVars, acc, unitVars>>

\* observeAIClient classifies: detectProvider(client)
ClientClassify ==
    /\ cls.given /\ cls.fn = NoVal
    /\ cls' = [cls EXCEPT !.fn = "patching",
                          !.out = detectProvider_patching(cls.in.client)]
    /\ UNCHANGED <<callVars, clientVars, acc, unitVars>>

NextClassify ==
    \/ DecoratorClassify
    \/ ClientClassify

SpecClassify == InitClassify /\ [][NextClassify]_vars

(***************************************************************************)
(* The StreamHandler on its own: usage capture over a sequence of chunks   *)
(* and the token counts extractTokens derives at the end.                  *)
(***************************************************************************)
MaxUsageChunks == 3     \* longest sequence of chunks fed to one handler

\* token counts: Undef for a count that is undefined or missing
Tokens(input, output, total) == [input |-> input, output |-> output, total |-> total]
NoTokens == Tokens(Undef, Undef, Undef)

\* usage[name], undefined when usage is null or lacks the field
Field(usage, name) == IF name \in DOMAIN usage THEN usage[name] ELSE Undef

\* StreamHandler.extractTokens
StreamHandler_extractTokens(h) ==
    IF h.usageData = NoUsage /\ h.inputTokensFromStart \in {Undef, 0}
    THEN NoTokens
    ELSE CASE h.provider = OPENAI ->
                Tokens(Field(h.usageData, "prompt_tokens"),
                       Field(h.usageData, "completion_tokens"),
                       Field(h.usageData, "total_tokens"))
           [] h.provider = ANTHROPIC ->
                LET inputTokens == IF h.inputTokensFromStart # Undef
                                   THEN h.inputTokensFromStart
                                   ELSE Field(h.usageData, "input_tokens")
                    outputTokens == Field(h.usageData, "output_tokens")
                IN  Tokens(inputTokens, outputTokens,
                           IF inputTokens # Undef /\ outputTokens # Undef
                           THEN inputTokens + outputTokens ELSE Undef)
           [] h.provider = GEMINI ->
                Tokens(Field(h.usageData, "promptTokenCount"),
                       Field(h.usageData, "candidatesTokenCount"),
                       Field(h.usageData, "totalTokenCount"))
           [] OTHER -> NoTokens

(***************************************************************************)
(* The chunks fed.  What a chunk carries: an input count and an output     *)
(* count, each possibly missing, in the usage object of the provider's     *)
(* wire format; or a piece of text; or a finish reason.  alt selects the   *)
(* other place the format has: an OpenAI usage chunk with an empty choices *)
(* array, an Anthropic message_start event with message.usage, a Gemini    *)
(* chunk object that also answers .text with the text of its parts.  stop  *)
(* marks the event that ends the message, which only the Anthropic format  *)
(* has (message_stop).                                                     *)
(***************************************************************************)
Carried(input, output, alt) ==
    [input |-> input, output |-> output, alt |-> alt, text |-> NoVal,
     finish |-> NoVal, stop |-> FALSE]
CarriedText(t, alt) == [Carried(Undef, Undef, alt) EXCEPT !.text = t]
CarriedFinish(f) == [Carried(Undef, Undef, FALSE) EXCEPT !.finish = f]
CarriedStop == [Carried(Undef, Undef, FALSE) EXCEPT !.stop = TRUE]

FinishReasons == {"length", "content_filter"}

CarriedValues ==
    {Carried(Undef, Undef, FALSE)}
        \cup { Carried(u[1], u[2], alt) :
                 u \in { <<10, Undef>>, <<Undef, 5>>, <<7, 5>> }, alt \in BOOLEAN }
        \cup { CarriedText("a", alt) : alt \in BOOLEAN }
        \cup { CarriedFinish(f) : f \in FinishReasons }
        \cup { CarriedStop }

\* the usage object with the fields that are present
UsageObject(inputName, outputName, c) ==
    [k \in (IF c.input # Undef THEN {inputName} ELSE {})
              \cup (IF c.output # Undef THEN {outputName} ELSE {}) |->
        IF k = inputName THEN c.input ELSE c.output]

UsageChunk(provider, c) ==
    LET plain == [NullChunk EXCEPT !.nul = FALSE] IN
    IF c.input = Undef /\ c.output = Undef THEN plain
    ELSE CASE provider = OPENAI ->
                [plain EXCEPT
                   !.usage = UsageObject("prompt_tokens", "completion_tokens", c),
                   !.choicesEmpty = c.alt]
           [] provider = ANTHROPIC ->
                IF c.alt
                THEN [plain EXCEPT
                        !.type = "message_start",
                        !.messageUsage = UsageObject("input_tokens", "output_tokens", c)]
                ELSE [plain EXCEPT
                        !.type = "message_delta",
                        !.usage = UsageObject("input_tokens", "output_tokens", c)]
           [] OTHER ->
                [plain EXCEPT
                   !.usageMetadata =
                       UsageObject("promptTokenCount", "candidatesTokenCount", c)]

\* the chunk of the provider family's wire format that carries c
FamilyChunk(provider, c) ==
    LET plain == [NullChunk EXCEPT !.nul = FALSE] IN
    IF c.text # NoVal
    THEN CASE provider = OPENAI -> OpenAIChunk(c.text)
           [] provider = ANTHROPIC -> AnthropicChunk(c.text)
           [] OTHER -> [plain EXCEPT !.parts = <<c.text>>,
                                     !.text = IF c.alt THEN c.text ELSE NoVal]
    ELSE IF c.finish # NoVal
    THEN CASE provider = OPENAI -> [plain EXCEPT !.finishReason = c.finish]
           [] provider = ANTHROPIC -> [plain EXCEPT !.type = "message_delta",
                                                    !.stopReason = c.finish]
           [] OTHER -> [plain EXCEPT !.candFinishReason = c.finish]
    ELSE IF c.stop /\ provider = ANTHROPIC
    THEN [plain EXCEPT !.type = "message_stop"]
    ELSE UsageChunk(provider, c)

\* the request of the streaming call the handler was created for
AccRequest == [model |-> "gpt-4", paramsModel |-> NoVal, stream |-> TRUE]

InitAcc ==
    /\ \E provider \in {OPENAI, ANTHROPIC, GOOGLE} :
          acc = [given |-> TRUE, provider |-> provider, fed |-> <<>>,
                 h |-> NewHandler(provider), done |-> FALSE, tokens |-> NoTokens,
                 response |-> NullVal]
    /\ cls = NoCls
    /\ UnitsIdle
    /\ ClientIdle
    /\ CallIdle

\* handler.processChunk(chunk)
Feed(c) ==
    /\ acc.given /\ ~acc.done
    /\ Len(acc.fed) < MaxUsageChunks
    /\ acc' = [acc EXCEPT !.fed = Append(@, c),
                          !.h = processChunk(@, FamilyChunk(acc.provider, c))]
    /\ UNCHANGED <<callVars, clientVars, cls, unitVars>>

\* the stream is over: createInteractionLog reads createFinalResponse() and
\* extractTokens()
Finish ==
    /\ acc.given /\ ~acc.done
    /\ acc' = [acc EXCEPT !.done = TRUE, !.tokens = StreamHandler_extractTokens(acc.h),
                          !.response = createFinalResponse(acc.h, AccRequest)]
    /\ UNCHANGED <<callVars, clientVars, cls, unitVars>>

NextAcc ==
    \/ \E c \in CarriedValues : Feed(c)
    \/ Finish

SpecAcc == InitAcc /\ [][NextAcc]_vars

(***************************************************************************)
(* The three extractTokens functions on one usage object: the one of the   *)
(* wrapped client (patching.ts), the one of the decorator and the          *)
(* StreamHandler's, the last on a handler that was fed one chunk carrying  *)
(* the usage.                                                              *)
(***************************************************************************)
NaN == -2       \* the number value NaN

\* a + b of JavaScript on counts: undefined + n is NaN
Plus(a, b) == IF a = Undef \/ b = Undef THEN NaN ELSE a + b

\* a response object: usage, usageMetadata (NoUsage when absent) and
\* candidates[0].tokenCount
TokResponse(usage, usageMetadata, tokenCount) ==
    [usage |-> usage, usageMetadata |-> usageMetadata, tokenCount |-> tokenCount]

\* extractTokens(response, provider) of patching.ts
patching_extractTokens(response, provider) ==
    CASE provider = OPENAI /\ response.usage # NoUsage ->
            Tokens(Field(response.usage, "prompt_tokens"),
                   Field(response.usage, "completion_tokens"),
                   Field(response.usage, "total_tokens"))
      [] provider = ANTHROPIC /\ response.usage # NoUsage ->
            Tokens(Field(response.usage, "input_tokens"),
                   Field(response.usage, "output_tokens"),
                   Plus(Field(response.usage, "input_tokens"),
                        Field(response.usage, "output_tokens")))
      [] provider = GOOGLE /\ response.usageMetadata # NoUsage ->
            Tokens(Field(response.usageMetadata, "promptTokenCount"),
                   Field(response.usageMetadata, "candidatesTokenCount"),
                   Field(response.usageMetadata, "totalTokenCount"))
      [] OTHER -> NoTokens

\* extractTokens(provider, response) of the decorator
decorator_extractTokens(provider, response) ==
    CASE provider = OPENAI /\ response.usage # NoUsage ->
            Tokens(Field(response.usage, "prompt_tokens"),
                   Field(response.usage, "completion_tokens"),
                   Field(response.usage, "total_tokens"))
      [] provider = ANTHROPIC /\ response.usage # NoUsage ->
            LET inputTokens == Field(response.usage, "input_tokens")
                outputTokens == Field(response.usage, "output_tokens")
            IN  Tokens(inputTokens, outputTokens,
                       IF inputTokens # Undef /\ outputTokens # Undef
                       THEN inputTokens + outputTokens ELSE Undef)
      [] provider = GEMINI /\ response.usage # NoUsage ->
            Tokens(Field(response.usage, "promptTokenCount"),
                   Field(response.usage, "candidatesTokenCount"),
                   Field(response.usage, "totalTokenCount"))
      [] provider = GEMINI /\ response.usage = NoUsage
         /\ response.tokenCount \notin {Undef, 0} ->
            Tokens(Undef, response.tokenCount, Undef)
      [] OTHER -> NoTokens

\* the usage object of a wire format with the counts u that are present
UsageFields(inputName, outputName, totalName, u) ==
    [k \in (IF u.input # Undef THEN {inputName} ELSE {})
              \cup (IF u.output # Undef THEN {outputName} ELSE {})
              \cup (IF u.total # Undef THEN {totalName} ELSE {}) |->
        IF k = inputName THEN u.input
        ELSE IF k = outputName THEN u.output ELSE u.total]

\* no usage object at all
AbsentUsage == [absent |-> TRUE]

WireUsage(provider, u) ==
    IF u = AbsentUsage THEN NoUsage
    ELSE CASE provider = OPENAI ->
                UsageFields("prompt_tokens", "completion_tokens", "total_tokens", u)
           [] provider = ANTHROPIC ->
                UsageFields("input_tokens", "output_tokens", "total_tokens", u)
           [] OTHER ->
                UsageFields("promptTokenCount", "candidatesTokenCount",
                            "totalTokenCount", u)

\* the response (or the one chunk) of the provider that carries u
WireResponse(provider, u, tokenCount) ==
    IF provider \in {OPENAI, ANTHROPIC}
    THEN TokResponse(WireUsage(provider, u), NoUsage, Undef)
    ELSE TokResponse(NoUsage, WireUsage(provider, u), tokenCount)

WireChunk(provider, u) ==
    LET plain == [NullChunk EXCEPT !.nul = FALSE] IN
    CASE provider = OPENAI -> [plain EXCEPT !.usage = WireUsage(provider, u)]
      [] provider = ANTHROPIC -> [plain EXCEPT !.type = "message_delta",
                                               !.usage = WireUsage(provider, u)]
      [] OTHER -> [plain EXCEPT !.usageMetadata = WireUsage(provider, u)]

\* the usage objects drawn: a provider's total may differ from input + output
\* (12 = 7 + 5, 20 does not); the Anthropic format has no total
UsagesOf(provider) ==
    {AbsentUsage} \cup
    { Tokens(i, o, t) : i \in {Undef, 7}, o \in {Undef, 5},
                        t \in IF provider = ANTHROPIC THEN {Undef} ELSE {Undef, 12, 20} }

InitTokens ==
    /\ \E fn \in {"patching", "decorator", "stream"},
          provider \in {OPENAI, ANTHROPIC, GOOGLE, GEMINI},
          tokenCount \in {Undef, 3} :
          \E u \in UsagesOf(provider) :
             /\ provider = GEMINI => fn = "decorator"
             /\ tokenCount # Undef => provider \in {GOOGLE, GEMINI} /\ fn # "stream"
             /\ tok = [given |-> TRUE, fn |-> fn, provider |-> provider,
                       carried |-> u, tokenCount |-> tokenCount,
                       done |-> FALSE, tokens |-> NoTokens]
    /\ heap = NoUnit /\ ids = NoUnit /\ sdk = NoUnit /\ ctx = NoUnit
    /\ cls = NoCls /\ acc = NoAcc
    /\ ClientIdle
    /\ CallIdle

outsideTok == <<callVars, clientVars, cls, acc, heap, ids, sdk, ctx>>

\* the wrapped method logs a response: tokens: extractTokens(result, provider)
PatchingExtract ==
    /\ tok.given /\ ~tok.done /\ tok.fn = "patching"
    /\ tok' = [tok EXCEPT !.done = TRUE,
                 !.tokens = patching_extractTokens(
                               WireResponse(tok.provider, tok.carried, tok.tokenCount),
                               tok.provider)]
    /\ UNCHANGED outsideTok

\* the decorator logs a response: tokens: extractTokens(provider, response)
DecoratorExtract ==
    /\ tok.given /\ ~tok.done /\ tok.fn = "decorator"
    /\ tok' = [tok EXCEPT !.done = TRUE,
                 !.tokens = decorator_extractTokens(
                               tok.provider,
                               WireResponse(tok.provider, tok.carried, tok.tokenCount))]
    /\ UNCHANGED outsideTok

\* a stream of one chunk is logged: processChunk, then extractTokens()
StreamExtract ==
    /\ tok.given /\ ~tok.done /\ tok.fn = "stream"
    /\ tok' = [tok EXCEPT !.done = TRUE,
                 !.tokens = StreamHandler_extractTokens(
                               processChunk(NewHandler(tok.provider),
                                            WireChunk(tok.provider, tok.carried)))]
    /\ UNCHANGED outsideTok

NextTokens ==
    \/ PatchingExtract
    \/ DecoratorExtract
    \/ StreamExtract

SpecTokens == InitTokens /\ [][NextTokens]_vars

(***************************************************************************)
(* Object identity under wrapLLMClient.  The client's object graph has a   *)
(* nested object, a cycle (chat.parent is the client) and a self-reference *)
(* (client.self).  A proxy is a new object each time `new Proxy` runs: the *)
(* proxies made are kept in order and a proxy is named by its position.    *)
(***************************************************************************)
MaxReads == 4       \* property reads through the wrapped client

GraphObjects == {"client", "chat"}

\* the object-valued properties of each object
ObjectProps(obj) ==
    IF obj = "client" THEN {"chat", "self"} ELSE {"parent"}

\* target[prop]
PropValue(obj, prop) ==
    CASE obj = "client" /\ prop = "chat" -> "chat"
      [] obj = "client" /\ prop = "self" -> "client"
      [] obj = "chat" /\ prop = "parent" -> "client"

\* wrapLLMClient(client, provider, basePath): return new Proxy(client, {get})
wrapLLMClient(proxies, target, basePath) ==
    Append(proxies, [target |-> target, basePath |-> basePath])

\* observeAIClient(client): the wrapped client is the first proxy
InitGraph ==
    /\ heap = [given |-> TRUE,
               proxies |-> wrapLLMClient(<<>>, "client", <<>>),
               reads |-> <<>>]
    /\ tok = NoUnit /\ ids = NoUnit /\ sdk = NoUnit /\ ctx = NoUnit
    /\ cls = NoCls /\ acc = NoAcc
    /\ ClientIdle
    /\ CallIdle

outsideGraph == <<callVars, clientVars, cls, acc, tok, ids, sdk, ctx>>

\* the get trap of proxy p for a property whose value is an object that is
\* no array: return wrapLLMClient(value, provider, currentPath)
ReadObject(p, prop) ==
    /\ heap.given
    /\ Len(heap.reads) < MaxReads
    /\ p \in 1..Len(heap.proxies)
    /\ prop \in ObjectProps(heap.proxies[p].target)
    /\ LET value == PropValue(heap.proxies[p].target, prop)
           made == wrapLLMClient(heap.proxies, value,
                                 Append(heap.proxies[p].basePath, prop))
       IN  heap' = [heap EXCEPT
                      !.proxies = made,
                      !.reads = Append(@, [from |-> p, prop |-> prop,
                                           result |-> Len(made)])]
    /\ UNCHANGED outsideGraph

NextGraph ==
    \E p \in 1..(MaxReads + 1), prop \in {"chat", "self", "parent"} : ReadObject(p, prop)

SpecGraph == InitGraph /\ [][NextGraph]_vars

(***************************************************************************)
(* Configuration, workflow and log queue (config.ts, workflow.ts,          *)
(* api/client).  An option of a configuration object is NoVal when the     *)
(* object does not have it, "true" or "false" otherwise; samplingRate is   *)
(* in hundredths (100 for the rate 1) and Undef when absent.               *)
(***************************************************************************)
MaxLogged == 2          \* records handed to logInteraction in one run
MaxTimers == 2          \* timer handles
MAX_QUEUE_SIZE == 50

DEFAULT_CONFIG ==
    [apiKey |-> NoVal, enabled |-> "true", samplingRate |-> 100,
     trackWorkflows |-> "true", workflowTracking |-> NoVal,
     autoInstrument |-> "true"]

\* a Partial<ObservabilityConfig> without options
NoOptions ==
    [apiKey |-> NoVal, enabled |-> NoVal, samplingRate |-> Undef,
     trackWorkflows |-> NoVal, workflowTracking |-> NoVal,
     autoInstrument |-> NoVal]

\* the configuration objects passed to initialize: with or without an API
\* key, and with at most one other option, or with a sampling rate of 0
\* beside autoInstrument: false
ConfigInputs ==
    { [c EXCEPT !.apiKey = k] :
        k \in {NoVal, "key"},
        c \in {NoOptions,
               [NoOptions EXCEPT !.enabled = "false"],
               [NoOptions EXCEPT !.samplingRate = 0],
               [NoOptions EXCEPT !.samplingRate = 50],
               [NoOptions EXCEPT !.trackWorkflows = "false"],
               [NoOptions EXCEPT !.workflowTracking = "false"],
               [NoOptions EXCEPT !.autoInstrument = "false"],
               [NoOptions EXCEPT !.autoInstrument = "false", !.samplingRate = 0]} }

\* { ...base, ...config }
Spread(base, config) ==
    [f \in DOMAIN base |->
        IF config[f] = (IF f = "samplingRate" THEN Undef ELSE NoVal)
        THEN base[f] ELSE config[f]]

\* getConfig(): a copy of globalConfig
getConfig == sdk.globalConfig

\* shouldLog(): the outcomes it can have; Math.random() decides for a rate
\* strictly between 0 and 1
shouldLog ==
    IF getConfig.enabled # "true" THEN {FALSE}
    ELSE IF getConfig.samplingRate = 100 THEN {TRUE}
    ELSE IF getConfig.samplingRate = 0 THEN {FALSE}
    ELSE {TRUE, FALSE}

\* startWorkflow(): the active workflow is kept when there is one
startWorkflow(activeWorkflow) == TRUE

\* getWorkflow(): creates a workflow when none is active
getWorkflow(activeWorkflow) == IF ~activeWorkflow THEN startWorkflow(activeWorkflow)
                               ELSE activeWorkflow

\* a record with the route it was logged by; rate and keyless note the
\* sampling rate in force and whether the last initialize had no API key
\* when the record was handed to logInteraction
LogEntry(route) ==
    [route |-> route, rate |-> getConfig.samplingRate,
     keyless |-> sdk.lastInit = "keyless"]

\* the batches each record has been part of, after one more batch
AddBatch(batched, batch) ==
    LET members == {batch[i] : i \in 1..Len(batch)}
    IN  [e \in DOMAIN batched \cup members |->
            (IF e \in DOMAIN batched THEN batched[e] ELSE 0)
            + Cardinality({i \in 1..Len(batch) : batch[i] = e})]

\* setTimeout(callback, delay): a new pending timer; its handle is returned
setTimeout(s) ==
    LET free == {h \in 1..MaxTimers : h \notin s.timers}
        h == IF free = {} THEN MaxTimers ELSE CHOOSE x \in free : \A y \in free : x <= y
    IN  [s EXCEPT !.flushTimeout = h, !.timers = @ \cup {h}]

\* clearTimeout(flushTimeout); flushTimeout = null
clearTimeout(s) ==
    IF s.flushTimeout = 0 THEN s
    ELSE [s EXCEPT !.timers = @ \ {s.flushTimeout}, !.flushTimeout = 0]

\* flush() that posts the queue and leaves it in place
flush_KeepsQueue(s) ==
    LET cleared == clearTimeout(s)
    IN  IF cleared.queue = <<>> THEN cleared
        ELSE [cleared EXCEPT !.sent = @ \cup {s.queue[i] : i \in 1..Len(s.queue)},
                             !.batched = AddBatch(@, s.queue),
                             !.sending = TRUE]

\* flush(): the timer is cleared, the queue is emptied and its records
\* are posted as one batch; the send is then awaited
flush(s) ==
    LET cleared == clearTimeout(s)
    IN  IF cleared.queue = <<>> THEN cleared
        ELSE [cleared EXCEPT !.queue = <<>>,
                             !.sent = @ \cup {s.queue[i] : i \in 1..Len(s.queue)},
                             !.batched = AddBatch(@, s.queue),
                             !.sending = TRUE]

\* logInteraction(data) that never schedules the flush timer
logInteraction_NoTimer(s, data) ==
    IF s.globalConfig.enabled # "true" THEN s
    ELSE LET queued == [s EXCEPT !.queue = Append(@, data)]
         IN  IF Len(queued.queue) >= MAX_QUEUE_SIZE THEN flush(queued) ELSE queued

\* logInteraction(data)
logInteraction(s, data) ==
    IF s.globalConfig.enabled # "true" THEN s
    ELSE LET pushed == [s EXCEPT !.queue = Append(@, data)]
             queued == IF pushed.flushTimeout = 0 THEN setTimeout(pushed) ELSE pushed
         IN  IF Len(queued.queue) >= MAX_QUEUE_SIZE THEN flush(queued) ELSE queued

InitSdk ==
    /\ sdk = [given |-> TRUE, globalConfig |-> DEFAULT_CONFIG, lastInit |-> "none",
              returned |-> DEFAULT_CONFIG, activeWorkflow |-> FALSE,
              patched |-> FALSE, queue |-> <<>>, flushTimeout |-> 0,
              timers |-> {}, sending |-> FALSE, batched |-> <<>>,
              refused |-> FALSE, sent |-> {}, logged |-> 0]
    /\ tok = NoUnit /\ heap = NoUnit /\ ids = NoUnit /\ ctx = NoUnit
    /\ cls = NoCls /\ acc = NoAcc
    /\ ClientIdle
    /\ CallIdle

outsideSdk == <<callVars, clientVars, cls, acc, tok, heap, ids, ctx>>

\* initialize(config)
initialize(config) ==
    /\ sdk.given
    /\ IF config.apiKey = NoVal
       THEN sdk' = [sdk EXCEPT !.lastInit = "keyless",
                               !.returned = [sdk.globalConfig EXCEPT !.enabled = "false"]]
       ELSE LET merged == Spread(DEFAULT_CONFIG, config)
            IN  sdk' = [sdk EXCEPT
                          !.lastInit = "keyed",
                          !.globalConfig = merged,
                          !.returned = merged,
                          !.patched = @ \/ merged.autoInstrument # "false",
                          !.activeWorkflow =
                              IF merged.trackWorkflows # "false"
                              THEN startWorkflow(@) ELSE @]
    /\ UNCHANGED outsideSdk

\* a method of a wrapped client completes: logInteraction(interaction)
WrappedCall ==
    /\ sdk.given /\ sdk.logged < MaxLogged
    /\ sdk' = [logInteraction(sdk, LogEntry("wrapped")) EXCEPT !.logged = @ + 1]
    /\ UNCHANGED outsideSdk

\* a method decorated with observeLLM completes
DecoratedCall ==
    /\ sdk.given /\ sdk.logged < MaxLogged
    /\ \E sampled \in shouldLog :
          IF sampled /\ getConfig.autoInstrument = "false"
          THEN LET s == [sdk EXCEPT !.activeWorkflow =
                                       IF getConfig.trackWorkflows # "false"
                                       THEN getWorkflow(@) ELSE @]
               IN  sdk' = [logInteraction(s, LogEntry("decorated")) EXCEPT !.logged = @ + 1]
          ELSE sdk' = [sdk EXCEPT !.logged = @ + 1]
    /\ UNCHANGED outsideSdk

\* logLLMInteraction(interaction)
ManualLog ==
    /\ sdk.given /\ sdk.logged < MaxLogged
    /\ LET s == [sdk EXCEPT !.activeWorkflow =
                               IF getConfig.trackWorkflows # "false"
                               THEN getWorkflow(@) ELSE @]
       IN  sdk' = [logInteraction(s, LogEntry("manual")) EXCEPT !.logged = @ + 1]
    /\ UNCHANGED outsideSdk

\* forceFlush()
Flush ==
    /\ sdk.given
    /\ sdk.queue # <<>> \/ sdk.flushTimeout # 0
    /\ sdk' = flush(sdk)
    /\ UNCHANGED outsideSdk

\* a pending timer fires and runs its callback, flush()
TimerFires ==
    /\ sdk.given
    /\ \E h \in sdk.timers :
          sdk' = flush([sdk EXCEPT !.timers = @ \ {h}])
    /\ UNCHANGED outsideSdk

\* the awaited fetch of a flush settles (response ok, response not ok, or
\* rejection: each is only logged); other sends may still be in flight
SendSettles ==
    /\ sdk.given
    /\ sdk.sending
    /\ \E others \in BOOLEAN : sdk' = [sdk EXCEPT !.sending = others]
    /\ UNCHANGED outsideSdk

NextSdk ==
    \/ \E config \in ConfigInputs : initialize(config)
    \/ WrappedCall
    \/ DecoratedCall
    \/ ManualLog
    \/ Flush
    \/ TimerFires
    \/ SendSettles

SpecSdk == InitSdk /\ [][NextSdk]_vars

\* ---------------------------------------------------------------------
\* The log queue of the API client: records numbered in the order
\* logInteraction accepted them, the flush timer, and the sends in flight
\* ---------------------------------------------------------------------

MaxRecords == 50        \* records accepted by logInteraction in one run

InitQueue ==
    /\ sdk = [given |-> TRUE, globalConfig |-> DEFAULT_CONFIG, lastInit |-> "keyed",
              returned |-> DEFAULT_CONFIG, activeWorkflow |-> FALSE,
              patched |-> FALSE, queue |-> <<>>, flushTimeout |-> 0,
              timers |-> {}, sending |-> FALSE, batched |-> <<>>,
              refused |-> FALSE, sent |-> {}, logged |-> 0]
    /\ tok = NoUnit /\ heap = NoUnit /\ ids = NoUnit /\ ctx = NoUnit
    /\ cls = NoCls /\ acc = NoAcc
    /\ ClientIdle
    /\ CallIdle

\* updateConfig({ enabled })
updateConfig(enabled) ==
    /\ sdk.given
    /\ sdk.globalConfig.enabled # enabled
    /\ sdk' = [sdk EXCEPT !.globalConfig =
                              Spread(@, [NoOptions EXCEPT !.enabled = enabled])]
    /\ UNCHANGED outsideSdk

\* logInteraction(data) while logging is enabled: the record is accepted
\* and takes the next number
LogRecord ==
    /\ sdk.given /\ sdk.logged < MaxRecords
    /\ sdk.globalConfig.enabled = "true"
    /\ sdk' = [logInteraction(sdk, sdk.logged + 1) EXCEPT !.logged = @ + 1]
    /\ UNCHANGED outsideSdk

\* logInteraction(data) while logging is disabled: it returns at once
RefuseRecord ==
    /\ sdk.given
    /\ sdk.globalConfig.enabled # "true"
    /\ ~sdk.refused
    /\ sdk' = [logInteraction(sdk, 0) EXCEPT !.refused = TRUE]
    /\ UNCHANGED outsideSdk

NextQueue ==
    \/ \E enabled \in {"true", "false"} : updateConfig(enabled)
    \/ LogRecord
    \/ RefuseRecord
    \/ Flush
    \/ TimerFires
    \/ SendSettles

SpecQueue == InitQueue /\ [][NextQueue]_vars

\* timers fire: a pending timer does not stay pending for ever
SpecQueueFair == SpecQueue /\ WF_vars(TimerFires)

(***************************************************************************)
(* Interaction ids (elements-ids.ts) under concurrent observed calls.      *)
(* Each caller calls a method of a wrapped client and awaits the promise   *)
(* the wrapped method returns, result.then(onFulfilled, onRejected).  The  *)
(* run follows the event loop: a macrotask (the program's own code, or a   *)
(* callback of the environment) may settle the original promises of       *)
(* several calls; each settlement queues the wrapper's callback as a       *)
(* microtask; the microtask queue is then drained in order, a callback     *)
(* that returns or throws queueing the continuation of the caller that     *)
(* awaits its promise.  A call's id is the number of the call; 0 is null.  *)
(***************************************************************************)
MaxCalls == 3       \* observed calls in one run

Calls == 1..MaxCalls

\* generateInteractionId(): lastInteractionId = id; return id
generateInteractionId(s, id) == [s EXCEPT !.lastInteractionId = id]

\* getInteractionId()
getInteractionId(s) == s.lastInteractionId

InitIds ==
    /\ ids = [given |-> TRUE, pc |-> [c \in Calls |-> "idle"], phase |-> "macro",
              jobs |-> <<>>, lastInteractionId |-> 0,
              record |-> [c \in Calls |-> 0], read |-> [c \in Calls |-> 0],
              together |-> FALSE]
    /\ tok = NoUnit /\ heap = NoUnit /\ sdk = NoUnit /\ ctx = NoUnit
    /\ cls = NoCls /\ acc = NoAcc
    /\ ClientIdle
    /\ CallIdle

outsideIds == <<callVars, clientVars, cls, acc, tok, heap, sdk, ctx>>

\* caller c calls the wrapped method, which returns result.then(...), and
\* awaits it
CallObserved(c) ==
    /\ ids.given /\ ids.phase = "macro"
    /\ ids.pc[c] = "idle"
    /\ ids' = [ids EXCEPT !.pc[c] = "pending"]
    /\ UNCHANGED outsideIds

\* the original promise of call c is fulfilled or rejected: the wrapper's
\* callback is queued; together notes that another callback was waiting
SettleOriginal(c) ==
    /\ ids.given /\ ids.phase = "macro"
    /\ ids.pc[c] = "pending"
    /\ ids' = [ids EXCEPT !.pc[c] = "settled",
                          !.jobs = Append(@, [kind |-> "callback", call |-> c]),
                          !.together = @ \/ ids.jobs # <<>>]
    /\ UNCHANGED outsideIds

\* the macrotask is over: the microtasks run
EndMacrotask ==
    /\ ids.given /\ ids.phase = "macro"
    /\ ids.jobs # <<>>
    /\ ids' = [ids EXCEPT !.phase = "micro"]
    /\ UNCHANGED outsideIds

\* onFulfilled / onRejected of the wrapped method: the id is generated, the
\* record built with it and logged; the promise the caller awaits settles
RunCallback ==
    /\ ids.given /\ ids.phase = "micro"
    /\ Head(ids.jobs).kind = "callback"
    /\ LET c == Head(ids.jobs).call
           s == generateInteractionId(ids, c)
       IN  ids' = [s EXCEPT !.record[c] = c,
                            !.jobs = Append(Tail(@), [kind |-> "continuation", call |-> c])]
    /\ UNCHANGED outsideIds

\* the caller's code after its await: it reads getInteractionId()
RunContinuation ==
    /\ ids.given /\ ids.phase = "micro"
    /\ Head(ids.jobs).kind = "continuation"
    /\ LET c == Head(ids.jobs).call
       IN  ids' = [ids EXCEPT !.read[c] = getInteractionId(ids),
                              !.pc[c] = "done",
                              !.jobs = Tail(@),
                              !.phase = IF Tail(ids.jobs) = <<>> THEN "macro" ELSE "micro"]
    /\ UNCHANGED outsideIds

NextIds ==
    \/ \E c \in Calls : CallObserved(c)
    \/ \E c \in Calls : SettleOriginal(c)
    \/ EndMacrotask
    \/ RunCallback
    \/ RunContinuation

SpecIds == InitIds /\ [][NextIds]_vars

(***************************************************************************)
(* Workflows (workflow.ts): the module's activeWorkflow, the ids             *)
(* generateUniqueId has produced, and the records logLLMInteraction          *)
(* attributes to the workflow getWorkflow() returns.                         *)
(***************************************************************************)
MaxWorkflowCalls == 6   \* calls of the workflow functions in one run

\* createWorkflow(id, metadata): a workflow object with its own metadata
createWorkflow(id, initialMetadata) ==
    [id |-> id, metadata |-> {"workflowId", "createdAt"} \cup initialMetadata]

\* the metadata objects a caller passes to startWorkflow and endWorkflow
WorkflowMetadataInputs == {{}, {"topic"}}

\* no workflow: activeWorkflow is null
NoWorkflow == [id |-> 0, metadata |-> {}]

InitWorkflow ==
    /\ ctx = [given |-> TRUE, activeWorkflow |-> NoWorkflow, created |-> 0,
              ended |-> {}, returned |-> 0, prior |-> 0, last |-> "none",
              attributed |-> 0, calls |-> 0]
    /\ tok = NoUnit /\ heap = NoUnit /\ ids = NoUnit /\ sdk = NoUnit
    /\ cls = NoCls /\ acc = NoAcc
    /\ ClientIdle
    /\ CallIdle

outsideCtx == <<callVars, clientVars, cls, acc, tok, heap, ids, sdk>>

\* startWorkflow(): the active workflow, marked with restartAttempt, when
\* there is one; otherwise a workflow with a new id, which becomes active
workflow_startWorkflow(c, metadata) ==
    IF c.activeWorkflow # NoWorkflow
    THEN [c EXCEPT !.activeWorkflow.metadata = @ \cup {"restartAttempt"} \cup metadata,
                   !.returned = c.activeWorkflow.id]
    ELSE LET created == createWorkflow(c.created + 1,
                            {"workflowStartTime", "workflowType"} \cup metadata)
         IN  [c EXCEPT !.activeWorkflow = created, !.created = @ + 1,
                       !.returned = created.id]

\* getWorkflow(): the active workflow, started first when there is none
workflow_getWorkflow(c) ==
    IF c.activeWorkflow = NoWorkflow THEN workflow_startWorkflow(c, {})
    ELSE [c EXCEPT !.returned = c.activeWorkflow.id]

\* endWorkflow(): a warning when no workflow is active; otherwise the
\* workflow gets workflowEndTime and the queue is flushed
workflow_endWorkflow(c, metadata) ==
    IF c.activeWorkflow = NoWorkflow THEN c
    ELSE [c EXCEPT !.activeWorkflow.metadata = @ \cup {"workflowEndTime"} \cup metadata,
                   !.ended = @ \cup {c.activeWorkflow.id}]

\* the caller calls startWorkflow(metadata)
StartWorkflow(metadata) ==
    /\ ctx.given /\ ctx.calls < MaxWorkflowCalls
    /\ ctx' = [workflow_startWorkflow(ctx, metadata) EXCEPT
                  !.calls = @ + 1, !.last = "start",
                  !.prior = ctx.activeWorkflow.id,
                  !.attributed = 0]
    /\ UNCHANGED outsideCtx

\* the caller calls getWorkflow()
GetWorkflow ==
    /\ ctx.given /\ ctx.calls < MaxWorkflowCalls
    /\ ctx' = [workflow_getWorkflow(ctx) EXCEPT
                  !.calls = @ + 1, !.last = "get",
                  !.prior = ctx.activeWorkflow.id,
                  !.attributed = 0]
    /\ UNCHANGED outsideCtx

\* the caller calls endWorkflow(metadata)
EndWorkflow(metadata) ==
    /\ ctx.given /\ ctx.calls < MaxWorkflowCalls
    /\ ctx' = [workflow_endWorkflow(ctx, metadata) EXCEPT
                  !.calls = @ + 1, !.last = "end", !.returned = 0,
                  !.prior = ctx.activeWorkflow.id,
                  !.attributed = 0]
    /\ UNCHANGED outsideCtx

\* logLLMInteraction(interaction): the record carries the metadata, and with
\* it the workflowId, of the workflow getWorkflow() returns
LogInWorkflow ==
    /\ ctx.given /\ ctx.calls < MaxWorkflowCalls
    /\ LET c == workflow_getWorkflow(ctx)
       IN  ctx' = [c EXCEPT !.calls = @ + 1, !.last = "log", !.returned = 0,
                            !.prior = ctx.activeWorkflow.id,
                            !.attributed = c.activeWorkflow.id]
    /\ UNCHANGED outsideCtx

NextWorkflow ==
    \/ \E metadata \in WorkflowMetadataInputs : StartWorkflow(metadata)
    \/ GetWorkflow
    \/ \E metadata \in WorkflowMetadataInputs : EndWorkflow(metadata)
    \/ LogInWorkflow

SpecWorkflow == InitWorkflow /\ [][NextWorkflow]_vars

(***************************************************************************)
(* The global metadata (workflow.ts), methods decorated with observeLLM     *)
(* (decorator) and the observed calls made inside them (patching.ts).       *)
(* A metadata object maps each key to its value, NoVal for an absent key.   *)
(***************************************************************************)
MaxMetadataCalls == 1   \* calls of the metadata functions by the caller in one run

Keys == {"user", "methodName", "decoratedCall"}

\* {}
EmptyMetadata == [k \in Keys |-> NoVal]

\* the decorated methods, by propertyKey
Methods == {"ask", "summarize"}

\* safelyGetMetadata(input, params): ask is decorated with { user: ... },
\* summarize with no metadata
customMetadata(m) ==
    [EmptyMetadata EXCEPT !["user"] = IF m = "ask" THEN "asker" ELSE NoVal]

\* Object.keys(metadata)
KeysOf(metadata) == {k \in Keys : metadata[k] # NoVal}

\* { ...base, ...metadata }
SpreadMetadata(base, metadata) ==
    [k \in Keys |-> IF metadata[k] # NoVal THEN metadata[k] ELSE base[k]]

\* setGlobalMetadata(metadata): globalMetadata = { ...metadata }
setGlobalMetadata(globalMetadata, metadata) == metadata

\* addGlobalMetadata(metadata): globalMetadata = { ...globalMetadata, ...metadata }
addGlobalMetadata(globalMetadata, metadata) == SpreadMetadata(globalMetadata, metadata)

\* getGlobalMetadata(): a copy of globalMetadata
getGlobalMetadata(globalMetadata) == globalMetadata

\* removeGlobalMetadata(keys): the keys are deleted from a copy, which
\* becomes globalMetadata
removeGlobalMetadata(globalMetadata, keys) ==
    [k \in Keys |-> IF k \in keys THEN NoVal ELSE globalMetadata[k]]

\* clearGlobalMetadata(): globalMetadata = {}
clearGlobalMetadata(globalMetadata) == EmptyMetadata

\* the metadata object the decorator adds for method m
DecoratorMetadata(m) ==
    SpreadMetadata(customMetadata(m),
                   [EmptyMetadata EXCEPT !["methodName"] = m, !["decoratedCall"] = "true"])

\* metadataToRemove: the custom keys, methodName and decoratedCall
metadataToRemove(m) == KeysOf(customMetadata(m)) \cup {"methodName", "decoratedCall"}

\* the metadata a wrapped method builds when it is called: a copy of the
\* global metadata and, when the lookup of the current workflow succeeds,
\* a copy of the workflow's metadata
CallMetadata(c, merged) ==
    [global |-> getGlobalMetadata(c.globalMetadata),
     workflow |-> IF merged THEN c.workflowMetadata ELSE {}]

\* the metadata of a record, read from the live global and workflow
\* metadata when the record is made
interactionMetadata_Live(c, m) ==
    [global |-> getGlobalMetadata(c.globalMetadata),
     workflow |-> IF c.methods[m].metadata.workflow = {} THEN {} ELSE c.workflowMetadata]

\* the metadata of a record: the fields of the object built at call start
\* ({ ...metadata, ... } in the handlers, { ...this.metadata, ... } in the
\* stream handler)
interactionMetadata(c, m) == c.methods[m].metadata

NoCallMetadata == [global |-> EmptyMetadata, workflow |-> {}]

IdleMethod ==
    [pc |-> "idle", call |-> "none", streamed |-> FALSE,
     before |-> EmptyMetadata, restored |-> "none", disturbed |-> FALSE,
     metadata |-> NoCallMetadata, changed |-> FALSE,
     record |-> NoCallMetadata]

InitMeta ==
    /\ ctx = [given |-> TRUE, globalMetadata |-> EmptyMetadata,
              workflowMetadata |-> {"workflowId"}, calls |-> 0,
              methods |-> [m \in Methods |-> IdleMethod]]
    /\ tok = NoUnit /\ heap = NoUnit /\ ids = NoUnit /\ sdk = NoUnit
    /\ cls = NoCls /\ acc = NoAcc
    /\ ClientIdle
    /\ CallIdle

\* the methods between the decorator's addGlobalMetadata and its cleanup
\* see the global metadata changed by someone else; so do the calls between
\* their start and their record
Disturb(methods, by, global) ==
    [m \in Methods |->
        IF m = by THEN methods[m]
        ELSE [methods[m] EXCEPT
                !.disturbed = @ \/ (global /\ methods[m].pc \in {"added", "awaiting"}),
                !.changed = @ \/ methods[m].call \in {"inflight", "streaming"}]]

\* the observed call of method m starts: the wrapped method builds metadata
StartCall(c, m, merged) ==
    [c EXCEPT !.methods[m].pc = "awaiting",
              !.methods[m].call = "inflight",
              !.methods[m].metadata = CallMetadata(c, merged)]

\* the decorated method m is called: the decorator adds its metadata and
\* calls the original method, which calls the client at once or awaits
\* something else first
Observe(m, immediate, merged) ==
    /\ ctx.given
    /\ ctx.methods[m].pc = "idle"
    /\ LET added == [ctx EXCEPT
                        !.globalMetadata = addGlobalMetadata(@, DecoratorMetadata(m)),
                        !.methods = Disturb(@, m, TRUE),
                        !.methods[m].pc = "added",
                        !.methods[m].before = ctx.globalMetadata]
       IN  ctx' = IF immediate THEN StartCall(added, m, merged) ELSE added
    /\ UNCHANGED outsideCtx

\* the original method, resumed, calls the client
CallStarts(m, merged) ==
    /\ ctx.given
    /\ ctx.methods[m].pc = "added"
    /\ ctx' = StartCall(ctx, m, merged)
    /\ UNCHANGED outsideCtx

\* the call settles: a regular response or a rejection is logged at once,
\* a stream is handed to the caller and logged when its iteration ends
CallSettles(m, stream) ==
    /\ ctx.given
    /\ ctx.methods[m].call = "inflight"
    /\ ctx' = IF stream
              THEN [ctx EXCEPT !.methods[m].call = "streaming",
                               !.methods[m].streamed = TRUE]
              ELSE [ctx EXCEPT !.methods[m].call = "emitted",
                               !.methods[m].record = interactionMetadata(ctx, m)]
    /\ UNCHANGED outsideCtx

\* the iteration of the stream ends: the stream handler's record is logged
StreamEnds(m) ==
    /\ ctx.given
    /\ ctx.methods[m].call = "streaming"
    /\ ctx' = [ctx EXCEPT !.methods[m].call = "emitted",
                          !.methods[m].record = interactionMetadata(ctx, m)]
    /\ UNCHANGED outsideCtx

\* the original method returns or throws: the decorator removes its keys
Cleanup(m) ==
    /\ ctx.given
    /\ \/ ctx.methods[m].pc = "added"
       \/ ctx.methods[m].pc = "awaiting" /\ ctx.methods[m].call \in {"streaming", "emitted"}
    /\ LET after == removeGlobalMetadata(ctx.globalMetadata, metadataToRemove(m))
       IN  ctx' = [ctx EXCEPT
                      !.globalMetadata = after,
                      !.methods = Disturb(@, m, TRUE),
                      !.methods[m].pc = "done",
                      !.methods[m].restored =
                          IF after = ctx.methods[m].before THEN "yes" ELSE "no"]
    /\ UNCHANGED outsideCtx

\* the metadata object the caller passes
MetadataInputs == {[EmptyMetadata EXCEPT !["user"] = "admin"]}

\* the caller calls setGlobalMetadata, addGlobalMetadata,
\* removeGlobalMetadata or clearGlobalMetadata
CallerChangesGlobal ==
    /\ ctx.given /\ ctx.calls < MaxMetadataCalls
    /\ \E g \in {setGlobalMetadata(ctx.globalMetadata, md) : md \in MetadataInputs}
            \cup {addGlobalMetadata(ctx.globalMetadata, md) : md \in MetadataInputs}
            \cup {removeGlobalMetadata(ctx.globalMetadata, KeysOf(md)) : md \in MetadataInputs}
            \cup {clearGlobalMetadata(ctx.globalMetadata)} :
          ctx' = [ctx EXCEPT !.globalMetadata = g, !.calls = @ + 1,
                             !.methods = Disturb(@, "caller", TRUE)]
    /\ UNCHANGED outsideCtx

\* the caller calls addMetadata on the workflow
WorkflowAddMetadata ==
    /\ ctx.given
    /\ "step" \notin ctx.workflowMetadata
    /\ ctx' = [ctx EXCEPT !.workflowMetadata = @ \cup {"step"},
                          !.methods = Disturb(@, "caller", FALSE)]
    /\ UNCHANGED outsideCtx

NextMeta ==
    \/ \E m \in Methods, immediate \in BOOLEAN, merged \in BOOLEAN :
          Observe(m, immediate, merged)
    \/ \E m \in Methods, merged \in BOOLEAN : CallStarts(m, merged)
    \/ \E m \in Methods, stream \in BOOLEAN : CallSettles(m, stream)
    \/ \E m \in Methods : StreamEnds(m)
    \/ \E m \in Methods : Cleanup(m)
    \/ CallerChangesGlobal
    \/ WorkflowAddMetadata

SpecMeta == InitMeta /\ [][NextMeta]_vars

(***************************************************************************)
(* Two streaming calls in flight together: each iteration of a wrapped     *)
(* stream, and each background reader, has the StreamHandler it created.   *)
(***************************************************************************)
Streams == {1, 2}

\* what the chunks of stream s carry: a text delta, a finish reason and a
\* usage report, different for the two streams
StreamCarried(s) ==
    IF s = 1
    THEN <<CarriedText("a", FALSE), CarriedFinish("length"), Carried(7, 5, FALSE)>>
    ELSE <<CarriedText("b", FALSE), CarriedFinish("content_filter"), Carried(10, 3, FALSE)>>

\* the chunks of stream s in the format of its provider
StreamChunks(provider, s) ==
    [i \in 1..Len(StreamCarried(s)) |-> FamilyChunk(provider, StreamCarried(s)[i])]

\* one handler for all streams
StreamHandlerOf_Shared(s) == 1

\* the handler of stream s: `const handler = new StreamHandler(...)` is a
\* local of the generator call, and of processStreamInBackground's call
StreamHandlerOf(s) == s

\* the handler a stream has after its first k chunks when no other stream
\* exists
RECURSIVE HandlerAlone(_, _, _)
HandlerAlone(provider, s, k) ==
    IF k = 0 THEN NewHandler(provider)
    ELSE processChunk(HandlerAlone(provider, s, k - 1), StreamChunks(provider, s)[k])

IdleStream(provider) ==
    [provider |-> provider, status |-> "idle", pos |-> 0,
     record |-> ProcessingErrorRecord(AccRequest, provider),
     response |-> NullVal, tokens |-> NoTokens]

InitStreams ==
    /\ \E p1 \in {OPENAI, ANTHROPIC}, p2 \in {OPENAI, ANTHROPIC} :
          acc = [given |-> TRUE,
                 streams |-> [s \in Streams |-> IdleStream(IF s = 1 THEN p1 ELSE p2)],
                 handlers |-> [s \in Streams |-> NewHandler(CUSTOM)],
                 order |-> <<>>]
    /\ cls = NoCls
    /\ UnitsIdle
    /\ ClientIdle
    /\ CallIdle

outsideAcc == <<callVars, clientVars, cls, unitVars>>

\* the iteration of stream s starts: its handler is created
OpenStream(s) ==
    /\ acc.given
    /\ acc.streams[s].status = "idle"
    /\ acc' = [acc EXCEPT !.streams[s].status = "open",
                          !.handlers[StreamHandlerOf(s)] = NewHandler(acc.streams[s].provider)]
    /\ UNCHANGED outsideAcc

\* stream s delivers its next chunk: handler.processChunk(chunk)
DeliverChunk(s) ==
    /\ acc.given
    /\ acc.streams[s].status = "open"
    /\ acc.streams[s].pos < Len(StreamCarried(s))
    /\ LET chunk == StreamChunks(acc.streams[s].provider, s)[acc.streams[s].pos + 1]
       IN  acc' = [acc EXCEPT !.streams[s].pos = @ + 1,
                              !.handlers[StreamHandlerOf(s)] = processChunk(@, chunk),
                              !.order = Append(@, s)]
    /\ UNCHANGED outsideAcc

\* the record of stream s is built from its handler
CloseStream(a, s, status) ==
    LET h == a.handlers[StreamHandlerOf(s)]
    IN  [a EXCEPT !.streams[s].status = status,
                  !.streams[s].record = createInteractionLog(h, AccRequest),
                  !.streams[s].response = createFinalResponse(h, AccRequest),
                  !.streams[s].tokens = StreamHandler_extractTokens(h)]

\* stream s ends after its last chunk
StreamCompletes(s) ==
    /\ acc.given
    /\ acc.streams[s].status = "open"
    /\ acc.streams[s].pos = Len(StreamCarried(s))
    /\ acc' = CloseStream(acc, s, "done")
    /\ UNCHANGED outsideAcc

\* the caller leaves the iteration of stream s early
IterationReturns(s) ==
    /\ acc.given
    /\ acc.streams[s].status = "open"
    /\ acc.streams[s].pos < Len(StreamCarried(s))
    /\ acc' = CloseStream(acc, s, "returned")
    /\ UNCHANGED outsideAcc

NextStreams ==
    \/ \E s \in Streams : OpenStream(s)
    \/ \E s \in Streams : DeliverChunk(s)
    \/ \E s \in Streams : StreamCompletes(s)
    \/ \E s \in Streams : IterationReturns(s)

SpecStreams == InitStreams /\ [][NextStreams]_vars

(***************************************************************************)
(* Properties.                                                             *)
(***************************************************************************)
IsPrefix(s, t) == Len(s) <= Len(t) /\ SubSeq(t, 1, Len(s)) = s

\* the call is over: nothing further is logged for it unless the caller
\* iterates its wrapper again
CallOver ==
    \/ pc = "settled" /\ path = "none"
    \/ path = "wrapper" /\ iterState \in {"done", "failed", "returned"}
    \/ path = "tee" /\ bgState = "done"

\* the call resolved to a stream and did not take the tee-failure fallback
StreamingCall ==
    /\ pc = "settled" /\ call.kind = "resolve" /\ isAsyncIterable(call.val)
    /\ ~(call.provider = OPENAI /\ call.req.stream /\ call.val.tee = "throws")

\* C1: every invocation hands exactly one record to the emitter over its
\* life, whatever its outcome: never more than one, and one once the call is
\* over.
C1_ExactlyOneRecord ==
    /\ Len(emitted) <= 1
    /\ CallOver => Len(emitted) = 1

\* C2: a non-streaming call gives its caller the value or the error the
\* original method produced.
C2_SameOutcome ==
    (pc = "settled" /\ ~isAsyncIterable(call.val)) =>
        CASE call.kind = "value" ->
               callerSaw.kind = "return" /\ callerSaw.obj = "original"
          [] call.kind = "throw" ->
               callerSaw.kind = "throw" /\ callerSaw.err = call.err
          [] call.kind = "resolve" ->
               callerSaw.kind = "resolve" /\ callerSaw.obj = "original"
          [] call.kind = "reject" ->
               callerSaw.kind = "reject" /\ callerSaw.err = call.err

\* C3: a synchronous throw of the original method emits exactly one record,
\* with status error, a null response and the exception's message (for a
\* thrown value that is no Error, its string conversion), and the caller
\* catches the very same exception.
C3_SyncThrow ==
    (pc = "settled" /\ call.kind = "throw") =>
        /\ Len(emitted) = 1
        /\ emitted[1].status = "error"
        /\ emitted[1].respTag = "null"
        /\ emitted[1].errorMessage =
              (IF call.err.isError THEN call.err.message ELSE call.err.str)
        /\ callerSaw.kind = "throw"
        /\ callerSaw.err = call.err

C3_Witness ==
    /\ pc = "settled" /\ call.kind = "throw" /\ call.err = Boom
    /\ Len(emitted) = 1 /\ emitted[1].errorMessage = "boom"

\* C4: when the original promise rejects, the caller's promise rejects with
\* the same error and exactly one error record with a null response is
\* emitted.
C4_Rejection ==
    (pc = "settled" /\ call.kind = "reject") =>
        /\ callerSaw.kind = "reject"
        /\ callerSaw.err = call.err
        /\ Len(emitted) = 1
        /\ emitted[1].status = "error"
        /\ emitted[1].respTag = "null"

C4_Witness ==
    /\ pc = "settled" /\ call.kind = "reject" /\ call.err = Boom
    /\ callerSaw.kind = "reject" /\ Len(emitted) = 1

\* C5: a failure inside the instrumentation never changes what the caller
\* sees: a successful call is not turned into a throw, a rejection or a
\* failing stream, and an original error is not replaced.
C5_InternalFailureInvisible ==
    /\ call.kind = "value" => callerSaw.kind = "return"
    /\ call.kind = "resolve" =>
          /\ callerSaw.kind = "resolve"
          /\ callerSaw.err \in (IF call.val.fails THEN {NoErr, StreamError} ELSE {NoErr})
    /\ call.kind \in {"throw", "reject"} => callerSaw.err = call.err

\* C6: no rejection of the emitter's promise is ever left unhandled.
C6_EmitterRejectionCaught == unhandled = 0

\* C7: on the tee path the caller reads exactly the elements of the
\* underlying stream, in order, and its next read never waits for the
\* logging copy.
C7_TeeCallerSequence ==
    path = "tee" =>
        /\ IsPrefix(callerGot, call.val.chunks)
        /\ userState \in {"done", "failed"} => callerGot = call.val.chunks
        /\ userState = "failed" => call.val.fails
        /\ userState = "active" => ENABLED TeeUserNext

C7_Witness ==
    /\ path = "tee" /\ userState = "done" /\ logPos = 0
    /\ Len(callerGot) >= 2 /\ callerGot = call.val.chunks

\* C8: for every call that resolves to a stream, every record emitted for it
\* is built from a StreamAccumulator that was fed every element the stream
\* delivered.
C8_StreamFedToAccumulator ==
    StreamingCall =>
        /\ \A i \in 1..Len(emitted) : emitted[i].respTag = "synth"
        /\ (path = "wrapper" /\ iterState = "active") =>
              Len(handler.content) = Len(callerGot)
        /\ (path = "tee" /\ bgState = "running") =>
              Len(bgHandler.content) = logPos

\* C9: on the interposed-iteration path the caller's object has every member
\* of the original stream value.
C9_SameShape ==
    path = "wrapper" => call.val.members \subseteq callerSaw.members

\* C10: the record of a streaming call is emitted only after the side that
\* feeds the accumulator has seen its iteration of the stream end or fail.
C10_EmitAfterStreamEnd ==
    (StreamingCall /\ Len(emitted) > 0) =>
        \/ path = "wrapper" /\ iterState \in {"done", "failed", "returned"}
        \/ path = "tee" /\ bgState = "done"

\* C11: on the tee path the logging copy does not depend on the caller's
\* reads: while it runs it can always take its next element, it stops only
\* once it has seen the underlying stream end or fail, and the call's record
\* has been emitted by then.
C11_LoggingCopyRunsToEnd ==
    path = "tee" =>
        /\ bgState = "running" => ENABLED BackgroundNext
        /\ bgState = "done" =>
              /\ logPos = StreamLen + 1
              /\ Len(emitted) >= 1

\* C11 for streams on whose elements the accumulator does not throw
C11_NoAccumulatorFailure ==
    (path = "tee" /\ \A i \in 1..StreamLen : ~processChunkThrows(call.val.chunks[i])) =>
        /\ bgState = "running" => ENABLED BackgroundNext
        /\ bgState = "done" =>
              /\ logPos = StreamLen + 1
              /\ Len(emitted) >= 1

\* the record handed to the emitter last
LastEmitted == emitted[Len(emitted)]

\* C12: when the underlying stream fails after delivering chunks, a record
\* is emitted that carries the content accumulated from the chunks seen
\* before the failure and is not flagged as fully processed, on the
\* interposed-iteration path and on the tee path alike.
C12_StreamErrorRecord ==
    /\ (path = "wrapper" /\ iterState = "failed" /\ callerSaw.err = StreamError) =>
          /\ Len(emitted) >= 1
          /\ LastEmitted.content = handler.content
          /\ "streamFullyProcessed" \notin LastEmitted.meta
    /\ (path = "tee" /\ bgState = "done" /\ call.val.fails /\ logPos = StreamLen + 1) =>
          /\ Len(emitted) >= 1
          /\ LastEmitted.content = bgHandler.content
          /\ "streamFullyProcessed" \notin LastEmitted.meta

\* the interposed-iteration half of C12 on its own
C12_WrapperHalf ==
    (path = "wrapper" /\ iterState = "failed" /\ callerSaw.err = StreamError) =>
          /\ Len(emitted) >= 1
          /\ LastEmitted.content = handler.content
          /\ "streamFullyProcessed" \notin LastEmitted.meta

\* the tee half of C12 on its own
C12_TeeHalf ==
    (path = "tee" /\ bgState = "done" /\ call.val.fails /\ logPos = StreamLen + 1) =>
          /\ Len(emitted) >= 1
          /\ LastEmitted.content = bgHandler.content
          /\ "streamFullyProcessed" \notin LastEmitted.meta

\* the call resolved to a stream whose tee() throws, on an OPENAI client
\* with stream: true
TeeThrew ==
    /\ pc = "settled" /\ call.kind = "resolve"
    /\ call.provider = OPENAI /\ call.req.stream
    /\ hasTeeMethod(call.val) /\ call.val.tee = "throws"

\* C13: when tee() throws, the caller's promise resolves to the original
\* stream object and exactly one record is emitted: the minimal one, with no
\* content, a response flagged streaming: true, and teeMethodFailed in its
\* metadata.
C13_TeeFailureFallback ==
    TeeThrew =>
        /\ callerSaw.kind = "resolve" /\ callerSaw.obj = "original"
        /\ path = "none"
        /\ Len(emitted) = 1
        /\ emitted[1].respTag = "basic"
        /\ emitted[1].content = <<>>
        /\ {"streamingRequest", "teeMethodFailed"} \subseteq emitted[1].meta

C13_Witness ==
    /\ TeeThrew
    /\ callerSaw.obj = "original"
    /\ Len(emitted) = 1 /\ "teeMethodFailed" \in emitted[1].meta

\* a function has been read through the proxies of a wrapped client
FunctionRead ==
    /\ client.exists /\ client.layers >= 1
    /\ cursor.got \in {"function", "called"}

\* the name of the property read last
LastName == cursor.names[Len(cursor.names)]

IsProtocolMember(name) == name \in ignoredMethods
HasLeadingUnderscore(name) == name[1] = "_"

\* C14: at every depth, a function read under the name of an object-protocol
\* member or under a name that begins with an underscore is the original
\* function, and calling it emits no record.
C14_IgnoredUnobserved ==
    (FunctionRead /\ (IsProtocolMember(LastName) \/ HasLeadingUnderscore(LastName))) =>
        /\ cursor.wrappers = 0
        /\ cursor.records = 0

\* C14 at the top level of the client only
C14_TopLevelOnly ==
    (FunctionRead /\ Len(cursor.names) = 1
       /\ (IsProtocolMember(LastName) \/ HasLeadingUnderscore(LastName))) =>
        /\ cursor.wrappers = 0
        /\ cursor.records = 0

\* C15: every function read through a chain of object-valued properties is
\* observed, unless it is an object-protocol member or a name on its path
\* begins with an underscore: it is wrapped, and its call emits a record.
C15_ReachableObserved ==
    (/\ FunctionRead
     /\ ~IsProtocolMember(LastName)
     /\ \A i \in 1..Len(cursor.names) : ~HasLeadingUnderscore(cursor.names[i])) =>
        /\ cursor.wrappers >= 1
        /\ cursor.got = "called" => cursor.records >= 1

\* C16: however often the patch entry points are invoked, the constructor
\* export of each package is replaced at most once, so a client built from
\* a patched constructor has one proxy layer and a call through it emits
\* exactly one record.
C16_PatchIdempotent ==
    /\ \A p \in Packages : libs.modules[p].replaced <= 1
    /\ (client.exists /\ client.observed = 0) =>
          /\ client.layers <= 1
          /\ (client.layers = 1 /\ cursor.got = "called") => cursor.records = 1

C16_Witness ==
    /\ libs.patchCalls >= 2
    /\ client.exists /\ client.observed = 0 /\ client.layers = 1
    /\ libs.modules[client.pkg].replaced = 1
    /\ cursor.got = "called" /\ cursor.records = 1

\* C17: wrapping a client that is already wrapped changes nothing: a call
\* through the result emits exactly one record.
C17_WrapIdempotent ==
    (client.exists /\ client.layers >= 1 /\ cursor.got = "called") =>
        cursor.records = 1

\* the provider family a model name belongs to, by the family's naming
\* patterns, and the tag of each family
IsOpenAIName(n) ==
    \/ startsWith(n, "gpt-") \/ startsWith(n, "o3-") \/ startsWith(n, "text-")
    \/ \E piece \in {"davinci", "curie", "babbage", "ada", "gpt4"} : includes(n, piece)

ModelFamilies(model) ==
    IF model.kind # "string" THEN {}
    ELSE LET n == toLowerCase(model.s) IN
         (IF IsOpenAIName(n) THEN {OPENAI} ELSE {})
            \cup (IF includes(n, "claude") THEN {ANTHROPIC} ELSE {})
            \cup (IF includes(n, "gemini") THEN {GEMINI} ELSE {})

CtorFamilies(ctorName) ==
    IF ctorName.kind # "string" THEN {}
    ELSE LET n == toLowerCase(ctorName.s) IN
         (IF includes(n, "openai") THEN {OPENAI} ELSE {})
            \cup (IF includes(n, "anthropic") THEN {ANTHROPIC} ELSE {})
            \cup (IF includes(n, "genai") \/ includes(n, "gemini") THEN {GEMINI} ELSE {})

DecoratorClassified == cls.given /\ cls.fn = "decorator"

C19_ClassifyTotal ==
    (cls.given /\ cls.fn # NoVal) => cls.out \in Providers

\* the value of the last chunk fed that carried the field, Undef when none did
RECURSIVE LastCarried(_, _)
LastCarried(fed, f) ==
    IF fed = <<>> THEN Undef
    ELSE IF fed[Len(fed)][f] # Undef THEN fed[Len(fed)][f]
    ELSE LastCarried(SubSeq(fed, 1, Len(fed) - 1), f)

\* the final usage holds, for each field, what the last chunk carrying it said
LastWriterPerField ==
    /\ acc.tokens.input = LastCarried(acc.fed, "input")
    /\ acc.tokens.output = LastCarried(acc.fed, "output")

\* C20: for every provider family and every sequence of chunks, each field
\* of the final usage holds the value of the last chunk that carried it; a
\* chunk without usage, or with usage lacking the field, clears nothing.
C20_UsageMergedPerField ==
    (acc.given /\ acc.done) => LastWriterPerField

\* C20 for the Anthropic family fed message_delta events only
C20_AnthropicDeltas ==
    (/\ acc.given /\ acc.done /\ acc.provider = ANTHROPIC
     /\ \A i \in 1..Len(acc.fed) : ~acc.fed[i].alt) => LastWriterPerField

\* C20 for the OpenAI family
C20_OpenAI ==
    (acc.given /\ acc.done /\ acc.provider = OPENAI) => LastWriterPerField

\* C20 for the Google family
C20_Google ==
    (acc.given /\ acc.done /\ acc.provider = GOOGLE) => LastWriterPerField


(***************************************************************************)
(* What the chunks fed carried: the texts in order, the last finish        *)
(* reason, whether any usage.                                              *)
(***************************************************************************)
RECURSIVE FedTexts(_)
FedTexts(fed) ==
    IF fed = <<>> THEN <<>>
    ELSE LET front == FedTexts(SubSeq(fed, 1, Len(fed) - 1))
             c == fed[Len(fed)]
         IN  IF c.text # NoVal THEN Append(front, c.text) ELSE front

RECURSIVE LastFinish(_)
LastFinish(fed) ==
    IF fed = <<>> THEN NoVal
    ELSE IF fed[Len(fed)].finish # NoVal THEN fed[Len(fed)].finish
    ELSE LastFinish(SubSeq(fed, 1, Len(fed) - 1))

FamilyShape(provider) ==
    CASE provider = OPENAI -> "choices"
      [] provider = ANTHROPIC -> "message"
      [] provider = GOOGLE -> "candidates"

\* C21: for each provider tag a streaming call can get (OPENAI, ANTHROPIC,
\* GOOGLE) the synthesized final response has that provider's shape and
\* carries the text the family's chunks delivered, the finish reason the
\* handler captured and the usage it captured
C21_FinalResponseOfFamily ==
    (acc.given /\ acc.done) =>
        /\ acc.response.shape = FamilyShape(acc.provider)
        /\ acc.response.content = FedTexts(acc.fed)
        /\ acc.h.finishReason # NoVal => acc.response.finishReason = acc.h.finishReason
        /\ acc.response.usage = acc.h.usageData

\* C21 for the OPENAI tag alone
C21_OpenAI ==
    (acc.given /\ acc.done /\ acc.provider = OPENAI) =>
        /\ acc.response.shape = FamilyShape(acc.provider)
        /\ acc.response.content = FedTexts(acc.fed)
        /\ acc.h.finishReason # NoVal => acc.response.finishReason = acc.h.finishReason
        /\ acc.response.usage = acc.h.usageData

\* C21 for the ANTHROPIC tag alone
C21_Anthropic ==
    (acc.given /\ acc.done /\ acc.provider = ANTHROPIC) =>
        /\ acc.response.shape = FamilyShape(acc.provider)
        /\ acc.response.content = FedTexts(acc.fed)
        /\ acc.h.finishReason # NoVal => acc.response.finishReason = acc.h.finishReason
        /\ acc.response.usage = acc.h.usageData

\* the prompt token count of the first message_start event fed that had one
RECURSIVE FirstStartCount(_)
FirstStartCount(fed) ==
    IF fed = <<>> THEN Undef
    ELSE IF Head(fed).alt /\ Head(fed).input # Undef THEN Head(fed).input
    ELSE FirstStartCount(Tail(fed))

\* C28: in an Anthropic-family handler the prompt token count captured from
\* the start event is the one of the first start event that carried a count:
\* no later chunk, a later start event with another count included, changes it
C28_PromptCountSetOnce ==
    (acc.given /\ acc.provider = ANTHROPIC) =>
        acc.h.inputTokensFromStart = FirstStartCount(acc.fed)

\* C28 for streams with at most one start event
C28_OneStartEvent ==
    (/\ acc.given /\ acc.provider = ANTHROPIC
     /\ Cardinality({i \in 1..Len(acc.fed) : acc.fed[i].alt}) <= 1) =>
        acc.h.inputTokensFromStart = FirstStartCount(acc.fed)

\* C30: for every provider family the finish reason the stream's record
\* reports is the one of the last chunk that carried a finish reason; chunks
\* without one do not clear it
C30_FinishReasonLastWriter ==
    (acc.given /\ acc.done /\ LastFinish(acc.fed) # NoVal) =>
        acc.response.finishReason = LastFinish(acc.fed)

\* C30 for the OPENAI family alone
C30_OpenAI ==
    (acc.given /\ acc.done /\ acc.provider = OPENAI /\ LastFinish(acc.fed) # NoVal) =>
        acc.response.finishReason = LastFinish(acc.fed)

\* C30 in the handler: what this.finishReason holds after each chunk
C30_Captured ==
    (acc.given /\ LastFinish(acc.fed) # NoVal) =>
        acc.h.finishReason = LastFinish(acc.fed)

\* C30 in an OPENAI handler
C30_CapturedOpenAI ==
    (acc.given /\ acc.provider = OPENAI) => acc.h.finishReason = LastFinish(acc.fed)

\* the total the usage object calls for: the provider's when given, else
\* input + output when both are present, else none
ExpectedTotal(u) ==
    IF u = AbsentUsage THEN Undef
    ELSE IF u.total # Undef THEN u.total
    ELSE IF u.input # Undef /\ u.output # Undef THEN u.input + u.output
    ELSE Undef

\* C29: for every provider and every usage object, streamed or not, the
\* extracted total is the provider's total when given, input + output when
\* both are present and no total was given, and absent otherwise; it is
\* never a number that was made up nor NaN
C29_TotalNeverFabricated ==
    (tok.given /\ tok.done) => tok.tokens.total = ExpectedTotal(tok.carried)

\* C29, the last part: the total is never NaN
C29_NeverNaN ==
    (tok.given /\ tok.done) => tok.tokens.total # NaN

\* C29 without the first part: the total is the provider's when given and
\* never NaN; the decorator and the StreamHandler on the enum's tags
C29_GivenOrAbsent ==
    (tok.given /\ tok.done /\ tok.fn # "patching" /\ tok.provider \in {OPENAI, ANTHROPIC}) =>
        /\ tok.tokens.total # NaN
        /\ tok.carried # AbsentUsage /\ tok.carried.total # Undef
              => tok.tokens.total = tok.carried.total
        /\ tok.tokens.total # Undef =>
              tok.tokens.total = ExpectedTotal(tok.carried)

\* C29 for the Anthropic format outside patching.ts
C29_AnthropicChecked ==
    (tok.given /\ tok.done /\ tok.fn # "patching" /\ tok.provider = ANTHROPIC) =>
        tok.tokens.total = ExpectedTotal(tok.carried)

\* the original method returned, synchronously, a stream or a promise-like
\* value that is not a native Promise
ReturnedStreamOrThenable ==
    call.kind = "value" /\ (isAsyncIterable(call.val) \/ call.val.thenable)

\* C26: a stream returned synchronously and a promise-like value that is not
\* a native Promise are handled as the stream or promise they are: no record
\* logs them as a completed plain value
C26_StreamOrThenableNotPlain ==
    ReturnedStreamOrThenable =>
        \A i \in 1..Len(emitted) : emitted[i].respTag # "value"

\* C26 for a stream a native promise resolves to: no record logs it as a
\* completed plain value
C26_ResolvedStream ==
    (call.kind = "resolve" /\ isAsyncIterable(call.val)) =>
        \A i \in 1..Len(emitted) : emitted[i].respTag # "value"

\* C27: reading the same nested object twice through the wrapped client
\* returns the same wrapped instance, in a graph with a cycle and a
\* self-reference too
C27_SameWrapperOnEveryRead ==
    heap.given =>
        \A i, j \in 1..Len(heap.reads) :
            (heap.reads[i].from = heap.reads[j].from
             /\ heap.reads[i].prop = heap.reads[j].prop)
                => heap.reads[i].result = heap.reads[j].result

\* C27, the wrapper of an underlying object is made once: no two proxies
\* have the same target
C27_OneWrapperPerObject ==
    heap.given =>
        \A p, q \in 1..Len(heap.proxies) :
            heap.proxies[p].target = heap.proxies[q].target => p = q

\* every record queued or sent
Recorded == {sdk.queue[i] : i \in 1..Len(sdk.queue)} \cup sdk.sent

\* C22: with samplingRate configured to 0 no record is queued or sent,
\* whichever way the call is made: wrapped client, decorated method or
\* manual logging
C22_RateZeroLogsNothing ==
    sdk.given => \A e \in Recorded : e.rate # 0

\* C22 for the decorated method alone
C22_Decorated ==
    sdk.given => \A e \in Recorded : e.route = "decorated" => e.rate # 0

\* C23: after initialize without an API key logging is disabled:
\* getConfig().enabled is false, and no record handed to logInteraction
\* afterwards is queued or sent
C23_NoKeyDisablesLogging ==
    sdk.given =>
        /\ sdk.lastInit = "keyless" => getConfig.enabled = "false"
        /\ \A e \in Recorded : ~e.keyless

\* C23 for the configuration initialize returns
C23_ReturnedConfigDisabled ==
    (sdk.given /\ sdk.lastInit = "keyless") => sdk.returned.enabled = "false"

\* C24: initialize with workflowTracking: false starts no workflow, so none
\* is active when it returns
C24_WorkflowTrackingOff ==
    [][\A config \in ConfigInputs :
          (/\ initialize(config)
           /\ config.workflowTracking = "false"
           /\ ~sdk.activeWorkflow) => ~sdk'.activeWorkflow]_vars

\* C24 for the option named trackWorkflows
C24_TrackWorkflowsOff ==
    [][\A config \in ConfigInputs :
          (/\ initialize(config)
           /\ config.trackWorkflows = "false"
           /\ ~sdk.activeWorkflow) => ~sdk'.activeWorkflow]_vars

\* C25: right after a caller's await of an observed call completes,
\* getInteractionId() returns the id of that call's record, also with other
\* observed calls in flight
C25_IdOfTheAwaitedCall ==
    ids.given =>
        \A c \in Calls : ids.pc[c] = "done" => ids.read[c] = ids.record[c]

\* C25 when no two calls settle in the same macrotask
C25_SettledApart ==
    (ids.given /\ ~ids.together) =>
        \A c \in Calls : ids.pc[c] = "done" => ids.read[c] = ids.record[c]

\* the text delta a chunk of the model carries
TextDelta(chunk) ==
    IF chunk.deltaContent # NoVal THEN chunk.deltaContent
    ELSE IF chunk.deltaText # NoVal THEN chunk.deltaText
    ELSE chunk.text

TextDeltas(chunks) == [i \in 1..Len(chunks) |-> TextDelta(chunks[i])]

C34_FullyProcessedOnlyOnCompletion ==
    (path = "wrapper" /\ iterState \in {"failed", "returned"}) =>
        \A i \in 1..Len(emitted) : "streamFullyProcessed" \notin emitted[i].meta

\* C34 for the logging copy of the tee path
C34_TeePath ==
    path = "tee" =>
        \A i \in 1..Len(emitted) :
            "streamFullyProcessed" \in emitted[i].meta =>
                logPos = StreamLen + 1 /\ ~call.val.fails

\* C35: processStreamInBackground hands at most one record to the emitter
\* per stream and marks it streamProcessingError only if iterating the
\* stream failed
C35_OneBackgroundRecord ==
    path = "tee" =>
        /\ Len(emitted) <= 1
        /\ \A i \in 1..Len(emitted) :
              "streamProcessingError" \in emitted[i].meta => call.val.fails

\* C35 when the emitter's promise never rejects and no chunk makes the
\* accumulator throw
C35_EmitterNeverRejects ==
    (/\ path = "tee" /\ swallowed = 0
     /\ \A i \in 1..Len(call.val.chunks) : ~processChunkThrows(call.val.chunks[i])) =>
        /\ Len(emitted) <= 1
        /\ \A i \in 1..Len(emitted) :
              "streamProcessingError" \in emitted[i].meta => call.val.fails

\* the batches a record has been part of
BatchesOf(r) == IF r \in DOMAIN sdk.batched THEN sdk.batched[r] ELSE 0

\* the places a record holds in the queue
QueuedTimes(r) == Cardinality({i \in 1..Len(sdk.queue) : sdk.queue[i] = r})

\* C36: every record accepted by logInteraction while logging is enabled is,
\* at every moment and under every interleaving of logInteraction calls,
\* timer flushes, forceFlush calls and sends in flight, either queued once
\* and part of no batch, or out of the queue and part of exactly one batch
C36_ExactlyOneBatch ==
    sdk.given =>
        \A r \in 1..sdk.logged : QueuedTimes(r) + BatchesOf(r) = 1

\* a record is queued while a send of earlier records is in flight, after a
\* logInteraction call was refused
C36_Witness ==
    /\ sdk.given /\ sdk.sending /\ sdk.refused
    /\ sdk.queue # <<>>
    /\ \E r \in 1..sdk.logged : BatchesOf(r) = 1

\* the fiftieth queued record triggers a flush of all fifty at once
C36_ThresholdBatch ==
    /\ sdk.given /\ sdk.logged = MAX_QUEUE_SIZE
    /\ sdk.queue = <<>>
    /\ \A r \in 1..MAX_QUEUE_SIZE : BatchesOf(r) = 1
    /\ sdk.refused /\ ~sdk.sending

\* C37: whenever the log queue is non-empty the timer flushTimeout refers to
\* is pending, at most one timer is pending at any time, and, timers firing, a
\* non-empty queue is eventually emptied with every record accepted so far
\* part of a batch, whether or not forceFlush is ever called
C37_TimerWhileQueued ==
    /\ [](sdk.given =>
            /\ sdk.queue # <<>> => (sdk.flushTimeout # 0 /\ sdk.flushTimeout \in sdk.timers)
            /\ Cardinality(sdk.timers) <= 1)
    /\ (sdk.given /\ sdk.queue # <<>>)
          ~> (sdk.given /\ sdk.queue = <<>> /\ \A r \in 1..sdk.logged : BatchesOf(r) = 1)

\* two records wait in the queue behind one pending timer
C37_Witness ==
    /\ sdk.given /\ Len(sdk.queue) = 2
    /\ Cardinality(sdk.timers) = 1
    /\ sdk.sending

\* C40: endWorkflow ends the current workflow: a workflow endWorkflow has
\* run on is not active any more, so the next startWorkflow or getWorkflow
\* returns a workflow with another id and later records are not attributed
\* to the ended workflow; while a workflow is active, startWorkflow returns
\* that same workflow
C40_EndWorkflowEnds ==
    ctx.given =>
        /\ ctx.activeWorkflow.id \notin ctx.ended
        /\ ctx.last \in {"start", "get"} => ctx.returned \notin ctx.ended
        /\ ctx.last = "log" => ctx.attributed \notin ctx.ended
        /\ (ctx.last = "start" /\ ctx.prior # 0 /\ ctx.prior \notin ctx.ended)
              => ctx.returned = ctx.prior

\* the part of C40 the code keeps: startWorkflow while a workflow is
\* active returns that workflow, and only one workflow is ever created
C40_StartReturnsActive ==
    ctx.given =>
        /\ (ctx.last = "start" /\ ctx.prior # 0) => ctx.returned = ctx.prior
        /\ ctx.created <= 1

\* C31: the metadata of a call's record is the global and workflow metadata
\* as they were when the call started, whatever setGlobalMetadata,
\* addGlobalMetadata, removeGlobalMetadata, clearGlobalMetadata or workflow
\* addMetadata did between the call's start and the record, stream
\* consumption included
C31_MetadataFromCallStart ==
    ctx.given =>
        \A m \in Methods :
            ctx.methods[m].call = "emitted" =>
                ctx.methods[m].record = ctx.methods[m].metadata

\* a streamed call's record was made after the global and the workflow
\* metadata had both changed since the call started
C31_Witness ==
    /\ ctx.given
    /\ \E m \in Methods :
          /\ ctx.methods[m].call = "emitted" /\ ctx.methods[m].streamed
          /\ ctx.methods[m].changed
          /\ ctx.methods[m].record.global # ctx.globalMetadata
          /\ ctx.methods[m].record.workflow = {"workflowId"}
          /\ ctx.workflowMetadata = {"workflowId", "step"}

\* C38: after a decorated method completes, by return or by throw, with
\* nobody else having touched the global metadata meanwhile, the global
\* metadata is what it was before the call, prior values of the decorator's
\* keys included
C38_GlobalMetadataRestored ==
    ctx.given =>
        \A m \in Methods :
            (ctx.methods[m].pc = "done" /\ ~ctx.methods[m].disturbed)
                => ctx.methods[m].restored = "yes"

\* the part of C38 the code keeps: keys that did not exist before the call
\* are removed
C38_NewKeysRemoved ==
    ctx.given =>
        \A m \in Methods :
            (/\ ctx.methods[m].pc = "done" /\ ~ctx.methods[m].disturbed
             /\ KeysOf(ctx.methods[m].before) \cap metadataToRemove(m) = {})
                => ctx.methods[m].restored = "yes"

\* C39: with two decorated methods in flight and the caller setting no
\* global metadata, the metadata of the observed call made inside a method is
\* that method's decorator metadata and nothing of the other method's
C39_OwnDecoratorMetadata ==
    (ctx.given /\ ctx.calls = 0) =>
        \A m \in Methods :
            ctx.methods[m].call = "emitted" =>
                ctx.methods[m].record.global = DecoratorMetadata(m)

\* the part of C39 the code keeps: a decorated method that runs while no
\* other decorated method is in flight has its own metadata in its record
C39_AloneOwnMetadata ==
    (ctx.given /\ ctx.calls = 0) =>
        \A m \in Methods :
            (ctx.methods[m].call = "emitted" /\ ~ctx.methods[m].disturbed
             /\ ctx.methods[m].before = EmptyMetadata)
                => ctx.methods[m].record.global = DecoratorMetadata(m)

\* C32: under any interleaving of the chunk deliveries of two streaming
\* calls in flight together, the record of each call, with its content, usage
\* and finish reason, is the one its own chunks alone produce
C32_OwnStreamOnly ==
    acc.given =>
        \A s \in Streams :
            acc.streams[s].status \in {"done", "returned"} =>
                LET alone == HandlerAlone(acc.streams[s].provider, s, acc.streams[s].pos)
                IN  /\ acc.streams[s].record = createInteractionLog(alone, AccRequest)
                    /\ acc.streams[s].response = createFinalResponse(alone, AccRequest)
                    /\ acc.streams[s].tokens = StreamHandler_extractTokens(alone)

\* both streams ran to their end with their chunks delivered alternately
C32_Witness ==
    /\ acc.given
    /\ acc.order = <<1, 2, 1, 2, 1, 2>>
    /\ \A s \in Streams : acc.streams[s].status = "done"
    /\ acc.streams[1].record.content = <<"a">>
    /\ acc.streams[2].record.content = <<"b">>
    /\ acc.streams[1].response.usage # acc.streams[2].response.usage

====
